---- MODULE Spec2Model ----
(***************************************************************************)
(* A model of the read-only SQLite file reader: the varint codecs, the     *)
(* page loader, the page header and cell decoder, the overflow assembler,  *)
(* the record decoder and the B-tree traversals (row count, projection).   *)
(*                                                                         *)
(* Bytes are the integers 0..255.  A 64-bit machine word (u64, i64, usize) *)
(* is a sequence of W bits, least significant bit first, so that shifts,   *)
(* masks and wrap-around keep their width.                                 *)
(***************************************************************************)
EXTENDS Integers, Sequences, FiniteSets, TLC

VARIABLES
  pc,         \* position of the operation under way
  v,          \* VarInt: the u64 handed to VarInt::encode
  enc,        \* VarInt: the bytes VarInt::encode returned
  dec,        \* VarInt: the u64 VarInt::decode returned
  rvData,     \* Page::read_varint: the page buffer
  rvOffset,   \* Page::read_varint: the offset read at
  rvOut,      \* Page::read_varint: what it returned
  pvOut,      \* Record::parse_varint on the same bytes: what it returned
  recInput,   \* Record::parse: what the payload was written from
  recData,    \* Record::parse: the payload bytes
  recOut,     \* Record::parse: what it returned
  build,      \* "debug" (integer overflow panics) or "release" (it wraps)
  file,       \* the bytes of the database file
  page_size,  \* SQLite.db_header.page_size
  fixture,    \* what the file was written from
  btree,      \* the BTree decoded from the page under work
  cell,       \* the Cell handed to get_full_payload
  payloadOut, \* what get_full_payload returned
  stmt,       \* the SelectStatement handed to select_columns
  sel,        \* select_columns: root_page, btree, column_positions, rowid_alias
  idx,        \* print_rows: index of the next cell of btree.cells
  stack,      \* count_rows_in_btree: the frames of the calls under way
  callee,     \* count_rows_in_btree: the page_num of the call being made
  ret,        \* count_rows_in_btree: what the last finished call returned
  stdout,     \* the lines printed so far
  selOut,     \* what select_columns returned
  loaded,     \* the Page load_page returned
  db_header,  \* the DbHeader read from the file's first 100 bytes
  chain       \* get_full_payload: full_payload, current_overflow, pages loaded

vars == <<pc, v, enc, dec, rvData, rvOffset, rvOut, pvOut, recInput, recData, recOut,
          build, file, page_size, fixture, btree, cell, payloadOut,
          stmt, sel, idx, stack, callee, ret, stdout, selOut, loaded, db_header, chain>>

varintVars == <<v, enc, dec>>
readVarintVars == <<rvData, rvOffset, rvOut, pvOut>>
recordVars == <<recInput, recData, recOut>>
fileVars == <<build, file, page_size, fixture>>
overflowVars == <<btree, cell, payloadOut>>
selectVars == <<stmt, sel, idx, stack, callee, ret, stdout, selOut>>
loaderVars == <<loaded, db_header>>
chainVars == <<chain>>

\* The values of the variables an operation does not use.
VarIntIdle == v = <<>> /\ enc = <<>> /\ dec = <<>>
ReadVarintIdle ==
  rvData = <<>> /\ rvOffset = 0 /\ rvOut = [status |-> "none"] /\ pvOut = [status |-> "none"]
RecordIdle == recInput = [types |-> <<>>] /\ recData = <<>> /\ recOut = [status |-> "none"]
FileIdle == build = "release" /\ file = <<>> /\ page_size = 0 /\ fixture = [kind |-> "none"]
OverflowIdle ==
  btree = [status |-> "none"] /\ cell = [kind |-> "none"] /\ payloadOut = [status |-> "none"]
SelectIdle ==
  /\ stmt = [columns |-> <<>>, from |-> <<>>]
  /\ sel = [status |-> "none"]
  /\ idx = 0 /\ stack = <<>> /\ callee = 0
  /\ ret = [status |-> "none"]
  /\ stdout = <<>>
  /\ selOut = [status |-> "none"]

LoaderIdle == loaded = [status |-> "none"] /\ db_header = [status |-> "none"]
ChainIdle == chain = [status |-> "none"]

\* The variables each operation leaves alone, and their values meanwhile.
varintOthers ==
  <<readVarintVars, recordVars, fileVars, overflowVars, selectVars, loaderVars, chainVars>>
VarIntOthersIdle ==
  ReadVarintIdle /\ RecordIdle /\ FileIdle /\ OverflowIdle /\ SelectIdle /\ LoaderIdle /\ ChainIdle
readVarintOthers ==
  <<varintVars, recordVars, fileVars, overflowVars, selectVars, loaderVars, chainVars>>
ReadVarintOthersIdle ==
  VarIntIdle /\ RecordIdle /\ FileIdle /\ OverflowIdle /\ SelectIdle /\ LoaderIdle /\ ChainIdle
recordOthers ==
  <<varintVars, readVarintVars, fileVars, overflowVars, selectVars, loaderVars, chainVars>>
RecordOthersIdle ==
  VarIntIdle /\ ReadVarintIdle /\ FileIdle /\ OverflowIdle /\ SelectIdle /\ LoaderIdle /\ ChainIdle
overflowOthers ==
  <<varintVars, readVarintVars, recordVars, selectVars, loaderVars, chainVars>>
OverflowOthersIdle ==
  VarIntIdle /\ ReadVarintIdle /\ RecordIdle /\ SelectIdle /\ LoaderIdle /\ ChainIdle
selectOthers ==
  <<varintVars, readVarintVars, recordVars, overflowVars, loaderVars, chainVars>>
SelectOthersIdle ==
  VarIntIdle /\ ReadVarintIdle /\ RecordIdle /\ OverflowIdle /\ LoaderIdle /\ ChainIdle

-----------------------------------------------------------------------------
(* Machine words *)

\* Width of u64, i64 and usize.
W == 64

Zero64 == [i \in 1..W |-> 0]

\* Bit k of a small natural number n (n < 2^31).
BitOf(n, k) == IF k > 30 THEN 0 ELSE (n \div (2^k)) % 2

\* `n as u64` for a small natural number n.
U64(n) == [i \in 1..W |-> BitOf(n, i - 1)]

\* `b << k` (bits shifted out are lost, as in Rust's shl for k < 64).
Shl(b, k) == [i \in 1..W |-> IF i > k THEN b[i - k] ELSE 0]

\* `b >> k` on an unsigned word.
Shr(b, k) == [i \in 1..W |-> IF i + k <= W THEN b[i + k] ELSE 0]

\* `a | b`
BitOr(a, b) == [i \in 1..W |-> IF a[i] = 1 \/ b[i] = 1 THEN 1 ELSE 0]

\* `a + b` modulo 2^W (ripple carry).
WrappingAdd(a, b) ==
  LET carry[i \in 0..W] ==
        IF i = 0 THEN 0 ELSE (a[i] + b[i] + carry[i - 1]) \div 2
  IN [i \in 1..W |-> (a[i] + b[i] + carry[i - 1]) % 2]

\* The low k bits of b as a natural number (k <= 30).
RECURSIVE Low(_, _)
Low(b, k) == IF k = 0 THEN 0 ELSE Low(b, k - 1) + b[k] * (2^(k - 1))

\* A word too large to be a length or an index of the model stands for Huge.
Huge == 1073741824

\* The word as a natural number, or Huge when it does not fit 30 bits.
NatOf(b) == IF \E i \in 31..W : b[i] = 1 THEN Huge ELSE Low(b, 30)

\* `let x = val;` before `body`: val is computed once and named in the body.
With(val, Body(_)) == Body(val)

\* The word with exactly the bits at the given positions (0-based) set.
WordOfBits(S) == [i \in 1..W |-> IF (i - 1) \in S THEN 1 ELSE 0]

-----------------------------------------------------------------------------
(* VarInt (varint.rs) *)

\* VarInt::encode: while value > 0 { push(value & 0x7F); value >>= 7 }
RECURSIVE encode_loop(_, _)
encode_loop(value, data) ==
  IF value = Zero64 THEN data
  ELSE encode_loop(Shr(value, 7), Append(data, Low(value, 7)))

encode(value) == encode_loop(value, <<>>)

\* VarInt::decode: for each byte { value *= 128; value += byte;
\*                                 if (value & !0xFF) == 0 { break } }
\* The first byte always leaves value < 256, so the loop body runs once and
\* the multiplication never overflows.
RECURSIVE decode_loop(_, _, _)
decode_loop(data, i, value) ==
  IF i > Len(data) THEN value
  ELSE LET next == WrappingAdd(Shl(value, 7), U64(data[i]))
       IN IF \A k \in 9..W : next[k] = 0 THEN next
          ELSE decode_loop(data, i + 1, next)

decode(data) == decode_loop(data, 1, Zero64)

\* Bit positions the inputs of the codec are built from: the edges of the
\* 7-bit groups and of the 64-bit word.
VarIntBitPositions == {0, 2, 3, 5, 6, 7, 8, 13, 14, 55, 56, 62, 63}

\* The values handed to the codec: 0, every value with one or two of the
\* positions set, 300 and u64::MAX.
VarIntInputs ==
  {WordOfBits({})} \cup {WordOfBits({a, b}) : a, b \in VarIntBitPositions}
    \cup {U64(300), WordOfBits(0..(W - 1))}

VarIntInit ==
  /\ pc = "varint_start"
  /\ v \in VarIntInputs
  /\ enc = <<>>
  /\ dec = <<>>
  /\ VarIntOthersIdle

Encode ==
  /\ pc = "varint_start"
  /\ enc' = encode(v)
  /\ pc' = "varint_encoded"
  /\ UNCHANGED <<v, dec, varintOthers>>

Decode ==
  /\ pc = "varint_encoded"
  /\ dec' = decode(enc)
  /\ pc' = "varint_decoded"
  /\ UNCHANGED <<v, enc, varintOthers>>

VarIntNext == Encode \/ Decode

SpecVarInt == VarIntInit /\ [][VarIntNext]_vars

\* C4: VarInt round trip: for every u64 v (0 included),
\* VarInt::decode(VarInt::encode(v)) equals v.
C4_RoundTrip == (pc = "varint_decoded") => (dec = v)

\* C5: VarInt::encode(v) returns 1 to 9 bytes, the most significant 7-bit
\* group first, with the continuation (high) bit set on every byte except the
\* last.
C5_EncodeShape ==
  (pc = "varint_encoded") =>
    /\ Len(enc) \in 1..9
    /\ \A i \in 1..(Len(enc) - 1) : enc[i] >= 128
    /\ enc[Len(enc)] < 128
    /\ \A i \in 1..Len(enc) :
         i < 9 => enc[i] % 128 = Low(Shr(v, 7 * (Len(enc) - i)), 7)

-----------------------------------------------------------------------------
(* Page::read_varint (btree_page/page.rs) *)

\* The sequence s from 0-based index `from` on: `&s[from..]`.
SliceFrom(s, from) == SubSeq(s, from + 1, Len(s))

\* for i in 0..9 { byte = self.at(offset + i); size += 1;
\*   if i == 8 { value |= byte << shift; break }
\*   else { value |= (byte & 0x7F) << shift; if byte & 0x80 == 0 { break } }
\*   shift += 7 }
\* Page::at indexes the buffer, which panics past its end.
RECURSIVE read_varint_loop(_, _, _, _)
read_varint_loop(data, offset, i, value) ==
  IF offset + i >= Len(data) THEN [status |-> "panic", value |-> Zero64, size |-> 0]
  ELSE LET byte == data[offset + i + 1]
           shift == 7 * i
       IN IF i = 8
          THEN [status |-> "ok", value |-> BitOr(value, Shl(U64(byte), shift)),
                size |-> i + 1]
          ELSE LET next == BitOr(value, Shl(U64(byte % 128), shift))
               IN IF byte < 128
                  THEN [status |-> "ok", value |-> next, size |-> i + 1]
                  ELSE read_varint_loop(data, offset, i + 1, next)

read_varint(data, offset) == read_varint_loop(data, offset, 0, Zero64)

\* The bytes the varint decoders are run on.
VarintBytes == {0, 1, 44, 127, 128, 130, 255}

\* Longest buffer of freely chosen bytes handed to a varint decoder.
MaxVarintLen == 3

RECURSIVE SeqsUpTo(_, _)
SeqsUpTo(S, n) ==
  IF n = 0 THEN {<<>>}
  ELSE LET shorter == SeqsUpTo(S, n - 1)
       IN shorter \cup {Append(s, x) : s \in {t \in shorter : Len(t) = n - 1}, x \in S}

\* n copies of the byte b.
Repeat(b, n) == [i \in 1..n |-> b]

\* Buffers: every short sequence, and the long varints (8 continuation bytes
\* and a ninth, or a tenth, byte).
VarintBuffers ==
  (SeqsUpTo(VarintBytes, MaxVarintLen) \ {<<>>})
    \cup {Repeat(c, 8) \o <<b>> : c \in {128, 130, 255}, b \in VarintBytes}
    \cup {Repeat(c, 8) \o <<b, 1>> : c \in {128, 255}, b \in {1, 128}}

ReadVarintInit ==
  /\ pc = "rv_start"
  /\ rvData \in VarintBuffers
  /\ rvOffset \in 0..1
  /\ rvOffset < Len(rvData)
  /\ rvOut = [status |-> "none"]
  /\ pvOut = [status |-> "none"]
  /\ ReadVarintOthersIdle

ReadVarint ==
  /\ pc = "rv_start"
  /\ rvOut' = read_varint(rvData, rvOffset)
  /\ pc' = "rv_done"
  /\ UNCHANGED <<rvData, rvOffset, pvOut, readVarintOthers>>

ReadVarintNext == ReadVarint

SpecReadVarint == ReadVarintInit /\ [][ReadVarintNext]_vars

\* The value of the varint format: the low 7 bits of each of the first (up
\* to 8) bytes, first byte most significant, and all 8 bits of a ninth byte.
RECURSIVE BigEndianVarint(_, _, _, _)
BigEndianVarint(data, offset, size, i) ==
  IF i = 0 THEN Zero64
  ELSE LET byte == data[offset + i]
           before == BigEndianVarint(data, offset, size, i - 1)
       IN IF i = 9 THEN BitOr(Shl(before, 8), U64(byte))
          ELSE BitOr(Shl(before, 7), U64(byte % 128))

\* C6: Page::read_varint returns (value, consumed) with consumed in 1..9 and
\* value the big-endian concatenation of the 7-bit groups (first byte most
\* significant, a ninth byte contributing 8 bits); 0x82,0x2C give (300, 2)
\* and 0x01 gives (1, 1).
C6_ReadVarintBigEndian ==
  (pc = "rv_done" /\ rvOut.status = "ok") =>
    /\ rvOut.size \in 1..9
    /\ rvOut.value = BigEndianVarint(rvData, rvOffset, rvOut.size, rvOut.size)
    /\ ((rvData[rvOffset + 1] = 130 /\ rvOut.size = 2 /\ rvData[rvOffset + 2] = 44)
          => rvOut.value = U64(300) /\ rvOut.size = 2)
    /\ (rvData[rvOffset + 1] = 1 => rvOut.value = U64(1) /\ rvOut.size = 1)

-----------------------------------------------------------------------------
(* Record (btree_page/schema_layer.rs) *)

\* `&s[..n]`
SliceTo(s, n) == SubSeq(s, 1, n)

\* Record::parse_varint: for each byte { value = (value << 7) | (byte & 0x7F);
\*   length += 1; if byte & 0x80 == 0 { return Ok((value, length)) } }
\* Err("Invalid varint") when the bytes end first.
RECURSIVE parse_varint_loop(_, _, _)
parse_varint_loop(data, i, value) ==
  IF i > Len(data) THEN [status |-> "err", value |-> Zero64, length |-> 0]
  ELSE LET next == BitOr(Shl(value, 7), U64(data[i] % 128))
       IN IF data[i] < 128
          THEN [status |-> "ok", value |-> next, length |-> i]
          ELSE parse_varint_loop(data, i + 1, next)

parse_varint(data) == parse_varint_loop(data, 1, Zero64)

\* The bytes, big-endian, as a word: from_be_bytes, or the chain of
\* `(data[i] as i64) << k` joined by `|`.
RECURSIVE BytesWord(_)
BytesWord(bytes) ==
  IF bytes = <<>> THEN Zero64
  ELSE BitOr(Shl(BytesWord(SubSeq(bytes, 1, Len(bytes) - 1)), 8),
             U64(bytes[Len(bytes)]))

\* `x as i64` for a signed x of n bits: bit n-1 is copied upwards.
SignExtend(w, n) == [i \in 1..W |-> IF i <= n THEN w[i] ELSE w[n]]

\* String::from_utf8 accepts exactly the well-formed UTF-8 sequences.
IsCont(b) == b >= 128 /\ b <= 191

RECURSIVE Utf8Valid(_)
Utf8Valid(bytes) ==
  IF bytes = <<>> THEN TRUE
  ELSE LET b == bytes[1]
           n == Len(bytes)
           rest(k) == SubSeq(bytes, k + 1, n)
       IN IF b < 128 THEN Utf8Valid(rest(1))
          ELSE IF b >= 194 /\ b <= 223
          THEN n >= 2 /\ IsCont(bytes[2]) /\ Utf8Valid(rest(2))
          ELSE IF b >= 224 /\ b <= 239
          THEN /\ n >= 3
               /\ IsCont(bytes[2]) /\ IsCont(bytes[3])
               /\ (b = 224 => bytes[2] >= 160)
               /\ (b = 237 => bytes[2] <= 159)
               /\ Utf8Valid(rest(3))
          ELSE IF b >= 240 /\ b <= 244
          THEN /\ n >= 4
               /\ IsCont(bytes[2]) /\ IsCont(bytes[3]) /\ IsCont(bytes[4])
               /\ (b = 240 => bytes[2] >= 144)
               /\ (b = 244 => bytes[2] <= 143)
               /\ Utf8Valid(rest(4))
          ELSE FALSE

Null == [tag |-> "Null", bits |-> <<>>, bytes |-> <<>>]
Integer(w) == [tag |-> "Integer", bits |-> w, bytes |-> <<>>]
Float(w) == [tag |-> "Float", bits |-> w, bytes |-> <<>>]
Blob(b) == [tag |-> "Blob", bits |-> <<>>, bytes |-> b]
Text(b) == [tag |-> "Text", bits |-> <<>>, bytes |-> b]

ValueOk(val, n) == [status |-> "ok", value |-> val, len |-> n]
ValueFail(how) == [status |-> how, value |-> Null, len |-> 0]

\* Record::parse_value.  Indexing or slicing past the end of data panics.
parse_value(serial_type, data) ==
  LET n == NatOf(serial_type)
      have(k) == Len(data) >= k
  IN CASE n = 0 -> ValueOk(Null, 0)
       [] n = 1 -> IF have(1) THEN ValueOk(Integer(U64(data[1])), 1)
                   ELSE ValueFail("panic")
       [] n = 2 -> IF have(2)
                   THEN ValueOk(Integer(SignExtend(BytesWord(SliceTo(data, 2)), 16)), 2)
                   ELSE ValueFail("panic")
       [] n = 3 -> IF have(3) THEN ValueOk(Integer(BytesWord(SliceTo(data, 3))), 3)
                   ELSE ValueFail("panic")
       [] n = 4 -> IF have(4)
                   THEN ValueOk(Integer(SignExtend(BytesWord(SliceTo(data, 4)), 32)), 4)
                   ELSE ValueFail("panic")
       [] n = 5 -> IF have(6) THEN ValueOk(Integer(BytesWord(SliceTo(data, 6))), 6)
                   ELSE ValueFail("panic")
       [] n = 6 -> IF have(8) THEN ValueOk(Integer(BytesWord(SliceTo(data, 8))), 8)
                   ELSE ValueFail("panic")
       [] n = 7 -> IF have(8) THEN ValueOk(Float(BytesWord(SliceTo(data, 8))), 8)
                   ELSE ValueFail("panic")
       [] n = 8 -> ValueOk(Integer(U64(0)), 0)
       [] n = 9 -> ValueOk(Integer(U64(1)), 0)
       [] n >= 12 /\ n % 2 = 0 ->
            LET size == (n - 12) \div 2
            IN IF have(size) THEN ValueOk(Blob(SliceTo(data, size)), size)
               ELSE ValueFail("panic")
       [] n >= 13 /\ n % 2 = 1 ->
            LET size == (n - 13) \div 2
            IN IF ~have(size) THEN ValueFail("panic")
               ELSE IF Utf8Valid(SliceTo(data, size))
               THEN ValueOk(Text(SliceTo(data, size)), size)
               ELSE ValueFail("err")
       [] OTHER -> ValueFail("err")

RecordOut(how, hs, types, vals, off) ==
  [status |-> how, header_size |-> hs, serial_types |-> types,
   values |-> vals, offset |-> off]

\* parse_serial_types with the loop run while offset <= header_size: one
\* varint too many is read as a serial type.
RECURSIVE parse_serial_types_inclusive(_, _, _, _)
parse_serial_types_inclusive(data, offset, header_size, types) ==
  IF ~(offset <= header_size) THEN RecordOut("ok", header_size, types, <<>>, offset)
  ELSE IF offset > Len(data) THEN RecordOut("panic", header_size, types, <<>>, offset)
  ELSE With(parse_varint(SliceFrom(data, offset)), LAMBDA r :
         IF r.status # "ok" THEN RecordOut("err", header_size, types, <<>>, offset)
         ELSE parse_serial_types_inclusive(data, offset + r.length, header_size,
                                           Append(types, r.value)))

\* while offset < header_size { parse_varint(&data[offset..])?; push; offset += len }
RECURSIVE parse_serial_types(_, _, _, _)
parse_serial_types(data, offset, header_size, types) ==
  IF ~(offset < header_size) THEN RecordOut("ok", header_size, types, <<>>, offset)
  ELSE IF offset > Len(data) THEN RecordOut("panic", header_size, types, <<>>, offset)
  ELSE With(parse_varint(SliceFrom(data, offset)), LAMBDA r :
         IF r.status # "ok" THEN RecordOut("err", header_size, types, <<>>, offset)
         ELSE parse_serial_types(data, offset + r.length, header_size,
                                 Append(types, r.value)))

\* for &serial_type in &serial_types { parse_value(serial_type, &data[offset..])?;
\*   push; offset += value_len }
RECURSIVE parse_values(_, _, _, _, _)
parse_values(data, offset, header_size, types, vals) ==
  IF Len(vals) = Len(types) THEN RecordOut("ok", header_size, types, vals, offset)
  ELSE IF offset > Len(data) THEN RecordOut("panic", header_size, types, vals, offset)
  ELSE With(parse_value(types[Len(vals) + 1], SliceFrom(data, offset)), LAMBDA r :
         IF r.status # "ok" THEN RecordOut(r.status, header_size, types, vals, offset)
         ELSE parse_values(data, offset + r.len, header_size, types,
                           Append(vals, r.value)))

\* Record::parse
parse(data) ==
  With(parse_varint(data), LAMBDA h :
    IF h.status # "ok" THEN RecordOut("err", 0, <<>>, <<>>, 0)
    ELSE With(parse_serial_types(data, h.length, NatOf(h.value), <<>>), LAMBDA t :
           IF t.status # "ok" THEN t
           ELSE parse_values(data, t.offset, t.header_size, t.serial_types, <<>>)))

\* The record format (the table above Record): the content size of a serial
\* type, and the kind of value it holds.
ContentSize(n) ==
  CASE n \in {0, 8, 9} -> 0
    [] n \in 1..4 -> n
    [] n = 5 -> 6
    [] n \in {6, 7} -> 8
    [] n >= 12 -> (n - 12 - (n % 2)) \div 2
    [] OTHER -> 0

KindOf(n) ==
  CASE n = 0 -> "Null"
    [] n \in (1..6) \cup {8, 9} -> "Integer"
    [] n = 7 -> "Float"
    [] n >= 12 /\ n % 2 = 0 -> "Blob"
    [] n >= 13 /\ n % 2 = 1 -> "Text"
    [] OTHER -> "reserved"

\* A varint as the format writes it (n < 2^14): most significant group first,
\* the high bit on every byte but the last.
FormatVarint(n) == IF n < 128 THEN <<n>> ELSE <<128 + (n \div 128), n % 128>>

RECURSIVE Flatten(_)
Flatten(ss) == IF ss = <<>> THEN <<>> ELSE ss[1] \o Flatten(Tail(ss))

RECURSIVE SumSeq(_)
SumSeq(ns) == IF ns = <<>> THEN 0 ELSE ns[1] + SumSeq(Tail(ns))

\* The content bytes of one value: the first byte, then the other byte repeated.
Content(n, fill) == [i \in 1..ContentSize(n) |-> IF i = 1 THEN fill[1] ELSE fill[2]]

RecordHeader(types) ==
  LET body == Flatten([i \in 1..Len(types) |-> FormatVarint(types[i])])
  IN FormatVarint(1 + Len(body)) \o body

\* A record: the header, then the contents in column order.
RecordBytes(types, fill) ==
  RecordHeader(types) \o Flatten([i \in 1..Len(types) |-> Content(types[i], fill)])

\* Serial types the records are written with (11 is reserved).
RecordSerialTypes == {0, 1, 2, 3, 4, 5, 6, 7, 8, 9, 11, 12, 13, 14, 15, 17}

\* Most columns of a generated record.
MaxCols == 2

\* The first and the other content bytes.
RecordFills == {<<0, 1>>, <<65, 66>>, <<127, 255>>, <<128, 0>>, <<255, 255>>}

RecordTypeLists == SeqsUpTo(RecordSerialTypes, MaxCols) \cup {<<4, 0, 9>>, <<128>>}

\* The payload as stored: the record with `cut` bytes missing at its end.
RecordPayload(in) ==
  LET whole == RecordBytes(in.types, in.fill)
  IN SubSeq(whole, 1, Len(whole) - in.cut)

\* A well-formed payload: whole, no reserved serial type, text in UTF-8.
WellFormedRecord(in) ==
  /\ in.cut = 0
  /\ \A i \in 1..Len(in.types) :
       /\ KindOf(in.types[i]) # "reserved"
       /\ KindOf(in.types[i]) = "Text" => Utf8Valid(Content(in.types[i], in.fill))

RecordInit ==
  /\ pc = "rec_start"
  /\ \E types \in RecordTypeLists, fill \in RecordFills, cut \in 0..1 :
       /\ cut <= Len(RecordBytes(types, fill))
       /\ recInput = [types |-> types, fill |-> fill, cut |-> cut]
  /\ recData = RecordPayload(recInput)
  /\ recOut = [status |-> "none"]
  /\ RecordOthersIdle

ParseRecord ==
  /\ pc = "rec_start"
  /\ recOut' = parse(recData)
  /\ pc' = "rec_done"
  /\ UNCHANGED <<recInput, recData, recordOthers>>

RecordNext == ParseRecord

SpecRecord == RecordInit /\ [][RecordNext]_vars

\* C7: for every well-formed payload Record::parse returns one value per
\* serial type of the header, in header order and of the kind the serial-type
\* table gives, and the body bytes consumed are the sum of the table's
\* content sizes; serial types [4, 0, 9] with 4 body bytes yield
\* [Integer(x), Null, Integer(1)] and consume header length plus 4 bytes.
C7_RecordDecode ==
  (pc = "rec_done" /\ WellFormedRecord(recInput)) =>
    LET types == recInput.types
    IN /\ recOut.status = "ok"
       /\ Len(recOut.serial_types) = Len(types)
       /\ Len(recOut.values) = Len(types)
       /\ \A i \in 1..Len(types) :
            /\ NatOf(recOut.serial_types[i]) = types[i]
            /\ recOut.values[i].tag = KindOf(types[i])
            /\ KindOf(types[i]) \in {"Blob", "Text"}
                 => recOut.values[i].bytes = Content(types[i], recInput.fill)
       /\ recOut.header_size = Len(RecordHeader(types))
       /\ recOut.offset - recOut.header_size
            = SumSeq([i \in 1..Len(types) |-> ContentSize(types[i])])
       /\ types = <<4, 0, 9>> =>
            /\ recOut.values =
                 <<Integer(SignExtend(BytesWord(Content(4, recInput.fill)), 32)),
                   Null, Integer(U64(1))>>
            /\ recOut.offset = recOut.header_size + 4

\* C7's case: the record [4, 0, 9] was parsed.
C7_Witness ==
  /\ pc = "rec_done"
  /\ WellFormedRecord(recInput)
  /\ recInput.types = <<4, 0, 9>>
  /\ recOut.status = "ok"
  /\ Len(recOut.values) = 3

\* C8: for serial types 1..6 the decoded Integer is the two's-complement
\* value of the 1, 2, 3, 4, 6 or 8 big-endian content bytes, sign-extended to
\* 64 bits (the byte 0xFF under serial type 1 decodes to -1).
C8_IntegerWidening ==
  (pc = "rec_done" /\ WellFormedRecord(recInput) /\ recOut.status = "ok") =>
    \A i \in 1..Len(recInput.types) :
      recInput.types[i] \in 1..6 =>
        LET content == Content(recInput.types[i], recInput.fill)
        IN recOut.values[i] = Integer(SignExtend(BytesWord(content), 8 * Len(content)))

-----------------------------------------------------------------------------
(* Page (btree_page/page.rs) *)

\* File offset of page 1's buffer.
Page1Offset == 100

PageOut(how, data, number) == [status |-> how, data |-> data, page_number |-> number]

\* Page::try_from_file without the correction for the file header: page 1
\* is read from file byte 0 like every other page.
try_from_file_at_zero(f, page_number, size, how_built) ==
  IF page_number = 0
  THEN PageOut(IF how_built = "debug" THEN "panic" ELSE "err", <<>>, page_number)
  ELSE IF page_number * size > Len(f) THEN PageOut("err", <<>>, page_number)
  ELSE PageOut("ok", SubSeq(f, (page_number - 1) * size + 1, page_number * size),
               page_number)

\* Page::try_from_file: seek to 100 for page 1, else to (page_number - 1) *
\* page_size, and read_exact page_size bytes (an error when the file ends
\* first).  For page_number 0 the subtraction overflows u32: a panic with
\* overflow checks, else a seek far past the end and a failed read.
try_from_file(f, page_number, size, how_built) ==
  IF page_number = 0
  THEN PageOut(IF how_built = "debug" THEN "panic" ELSE "err", <<>>, page_number)
  ELSE IF page_number > 1 /\ page_number - 1 > Len(f) \div size
  THEN PageOut("err", <<>>, page_number)
  ELSE LET offset == IF page_number = 1 THEN Page1Offset
                     ELSE (page_number - 1) * size
       IN IF offset + size > Len(f) THEN PageOut("err", <<>>, page_number)
          ELSE PageOut("ok", SubSeq(f, offset + 1, offset + size), page_number)

\* Page::read_u16 and Page::read_u32 at an offset inside the buffer.  A u32
\* of 2^30 or more stands for Huge.
read_u16(data, offset) == data[offset + 1] * 256 + data[offset + 2]

read_u32(data, offset) ==
  IF data[offset + 1] >= 64 THEN Huge
  ELSE data[offset + 1] * 16777216 + data[offset + 2] * 65536
         + data[offset + 3] * 256 + data[offset + 4]

\* Page::read_bytes
read_bytes(data, offset, size) == SubSeq(data, offset + 1, offset + size)

-----------------------------------------------------------------------------
(* Header and Cell (btree_page/mod.rs, btree_page/cell.rs) *)

\* Header::new: the six fields, read at offsets 0, 1, 3, 5, 7 and 8; reading
\* past the buffer panics.
Header_new(page) ==
  IF Len(page.data) < 12 THEN [status |-> "panic"]
  ELSE [status |-> "ok",
        page_type |-> page.data[1],
        first_freeblock |-> read_u16(page.data, 1),
        num_cells |-> read_u16(page.data, 3),
        start_cell_content |-> read_u16(page.data, 5),
        num_fragmented_free_bytes |-> page.data[8],
        right_most_pointer |-> read_u32(page.data, 8)]

\* Largest overflow page number Cell::read_payload accepts.
MaxOverflowPage == 1000000

\* Option<u32>
None == <<>>
Some(n) == <<n>>

TableLeaf(size, rowid, bytes, overflow) ==
  [kind |-> "TableLeaf", left_child_page |-> 0, payload_size |-> size,
   row_id |-> rowid, payload |-> bytes, overflow_page |-> overflow]
TableInterior(left, rowid) ==
  [kind |-> "TableInterior", left_child_page |-> left, payload_size |-> 0,
   row_id |-> rowid, payload |-> <<>>, overflow_page |-> None]
IndexLeaf(size, bytes, overflow) ==
  [kind |-> "IndexLeaf", left_child_page |-> 0, payload_size |-> size,
   row_id |-> Zero64, payload |-> bytes, overflow_page |-> overflow]
IndexInterior(left, size, bytes, overflow) ==
  [kind |-> "IndexInterior", left_child_page |-> left, payload_size |-> size,
   row_id |-> Zero64, payload |-> bytes, overflow_page |-> overflow]

\* Cell::read_payload without the sanity check of the overflow page number.
read_payload_unchecked(data, payload_size, payload_offset) ==
  LET remaining_space == Len(data) - payload_offset
  IN IF payload_size <= remaining_space
     THEN <<read_bytes(data, payload_offset, payload_size), None>>
     ELSE IF remaining_space < 4 THEN <<(<<>>), None>>
     ELSE <<read_bytes(data, payload_offset, remaining_space - 4),
            Some(read_u32(data, Len(data) - 4))>>

\* Cell::read_payload keeping every remaining byte as local payload, with no
\* room reserved for the overflow page number.
read_payload_whole_space(data, payload_size, payload_offset) ==
  LET remaining_space == Len(data) - payload_offset
  IN IF payload_size <= remaining_space
     THEN <<read_bytes(data, payload_offset, payload_size), None>>
     ELSE IF remaining_space < 4 THEN <<(<<>>), None>>
     ELSE With(read_u32(data, Len(data) - 4), LAMBDA overflow_page :
            IF overflow_page = 0 \/ overflow_page > MaxOverflowPage
            THEN <<read_bytes(data, payload_offset, remaining_space), None>>
            ELSE <<read_bytes(data, payload_offset, remaining_space),
                   Some(overflow_page)>>)

\* Cell::read_payload; payload_offset is inside the buffer or at its end.
read_payload(data, payload_size, payload_offset) ==
  LET remaining_space == Len(data) - payload_offset
  IN IF payload_size <= remaining_space
     THEN <<read_bytes(data, payload_offset, payload_size), None>>
     ELSE IF remaining_space < 4 THEN <<(<<>>), None>>
     ELSE LET local_payload_size == remaining_space - 4
              payload == read_bytes(data, payload_offset, local_payload_size)
              overflow_offset == payload_offset + local_payload_size
          IN IF overflow_offset + 4 > Len(data) THEN <<payload, None>>
             ELSE With(read_u32(data, overflow_offset), LAMBDA overflow_page :
                    IF overflow_page = 0 \/ overflow_page > MaxOverflowPage
                    THEN <<payload, None>>
                    ELSE <<payload, Some(overflow_page)>>)

\* What `page.number == 1` subtracts from a cell pointer.
Page1Adjustment == 100

CellOut(how, c) == [status |-> how, cell |-> c]

\* One iteration of Cell::new's loop: the cell at pointer-array entry i.
\* The pointer is read at 8 + 2 * i; on page 1, 100 is subtracted (an
\* overflow for a pointer below 100: a panic, or a wrapped offset whose first
\* read panics).  Every read past the buffer panics.
Cell_at(page, header, i) ==
  LET data == page.data
      n == Len(data)
      at == 8 + i * 2
      offset_adjustment == IF page.page_number = 1 THEN Page1Adjustment ELSE 0
      panic == CellOut("panic", <<>>)
  IN IF at + 2 > n THEN panic
     ELSE IF read_u16(data, at) < offset_adjustment THEN panic
     ELSE With(read_u16(data, at) - offset_adjustment, LAMBDA cell_offset :
       CASE header.page_type = 13 ->
              With(read_varint(data, cell_offset), LAMBDA ps :
                IF ps.status # "ok" THEN panic
                ELSE With(read_varint(data, cell_offset + ps.size), LAMBDA rid :
                  IF rid.status # "ok" THEN panic
                  ELSE With(read_payload(data, NatOf(ps.value),
                                         cell_offset + ps.size + rid.size), LAMBDA p :
                         CellOut("ok", TableLeaf(NatOf(ps.value), rid.value,
                                                 p[1], p[2])))))
         [] header.page_type = 5 ->
              IF cell_offset + 4 > n THEN panic
              ELSE With(read_varint(data, cell_offset + 4), LAMBDA rid :
                     IF rid.status # "ok" THEN panic
                     ELSE CellOut("ok", TableInterior(read_u32(data, cell_offset),
                                                      rid.value)))
         [] header.page_type = 10 ->
              With(read_varint(data, cell_offset), LAMBDA ps :
                IF ps.status # "ok" THEN panic
                ELSE With(read_payload(data, NatOf(ps.value), cell_offset + ps.size),
                          LAMBDA p :
                       CellOut("ok", IndexLeaf(NatOf(ps.value), p[1], p[2]))))
         [] header.page_type = 2 ->
              IF cell_offset + 4 > n THEN panic
              ELSE With(read_varint(data, cell_offset + 4), LAMBDA ps :
                     IF ps.status # "ok" THEN panic
                     ELSE With(read_payload(data, NatOf(ps.value),
                                            cell_offset + 4 + ps.size), LAMBDA p :
                            CellOut("ok", IndexInterior(read_u32(data, cell_offset),
                                                        NatOf(ps.value), p[1], p[2]))))
         [] OTHER -> panic)

\* Cell::new: for i in 0..header.num_cells
RECURSIVE Cell_new_loop(_, _, _, _)
Cell_new_loop(page, header, i, cells) ==
  IF i >= header.num_cells THEN [status |-> "ok", cells |-> cells]
  ELSE With(Cell_at(page, header, i), LAMBDA c :
         IF c.status # "ok" THEN [status |-> c.status, cells |-> cells]
         ELSE Cell_new_loop(page, header, i + 1, Append(cells, c.cell)))

Cell_new(page, header) == Cell_new_loop(page, header, 0, <<>>)

BTreeOut(how, page, header, cells) ==
  [status |-> how, page |-> page, header |-> header, cells |-> cells]

\* BTree::new
BTree_new(page) ==
  With(Header_new(page), LAMBDA header :
    IF header.status # "ok" THEN BTreeOut("panic", page, header, <<>>)
    ELSE With(Cell_new(page, header), LAMBDA cells :
           BTreeOut(cells.status, page, header, cells.cells)))

-----------------------------------------------------------------------------
(* SQLite (lib.rs): pages and payloads *)

\* SQLite::load_page
load_page(f, size, how_built, page_num) == try_from_file(f, page_num, size, how_built)

\* SQLite::btree_from_page
btree_from_page(f, size, how_built, page_num) ==
  With(load_page(f, size, how_built, page_num), LAMBDA page :
    IF page.status # "ok" THEN BTreeOut(page.status, page, [status |-> "none"], <<>>)
    ELSE BTree_new(page))

PayloadOut(how, bytes, loads) == [status |-> how, payload |-> bytes, loads |-> loads]

\* The loop of SQLite::get_full_payload:
\*   while let Some(page_num) = current_overflow {
\*     overflow_page = load_page(page_num)?;
\*     remaining_size = total_size - full_payload.len();
\*     data_size = min(remaining_size - 4, overflow_page.data.len() - 4);
\*     full_payload.extend(read_bytes(0, data_size));
\*     current_overflow = if remaining_size > data_size + 4
\*                        { Some(read_u32(data_size)) } else { None } }
\* The subtractions overflow usize when their result would be negative: a
\* panic with overflow checks; without, the result wraps to a size beyond any
\* page.  Pages hold at least 4 bytes (DbHeader asserts page_size >= 512).
RECURSIVE get_full_payload_loop(_, _, _, _, _, _, _)
get_full_payload_loop(f, size, how_built, total_size, full_payload, current_overflow, loads) ==
  IF current_overflow = None THEN PayloadOut("ok", full_payload, loads)
  ELSE With(load_page(f, size, how_built, current_overflow[1]), LAMBDA overflow_page :
         IF overflow_page.status # "ok"
         THEN PayloadOut(overflow_page.status, full_payload, loads + 1)
         ELSE IF total_size < Len(full_payload) + 4 /\ how_built = "debug"
         THEN PayloadOut("panic", full_payload, loads + 1)
         ELSE LET remaining_size == IF total_size < Len(full_payload) THEN Huge
                                    ELSE total_size - Len(full_payload)
                  a == IF remaining_size < 4 THEN Huge ELSE remaining_size - 4
                  b == Len(overflow_page.data) - 4
                  data_size == IF a < b THEN a ELSE b
                  next == IF remaining_size > data_size + 4
                          THEN Some(read_u32(overflow_page.data, data_size))
                          ELSE None
              IN get_full_payload_loop(f, size, how_built, total_size,
                   full_payload \o read_bytes(overflow_page.data, 0, data_size),
                   next, loads + 1))

\* SQLite::get_full_payload
get_full_payload(f, size, how_built, c) ==
  IF c.kind = "TableLeaf"
  THEN get_full_payload_loop(f, size, how_built, c.payload_size, c.payload,
                             c.overflow_page, 0)
  ELSE PayloadOut("ok", c.payload, 0)

-----------------------------------------------------------------------------
(* Database files, written as the format lays them out (the layout tables
   above BTree and Cell) *)

U16Bytes(n) == <<n \div 256, n % 256>>
U32Bytes(n) == <<n \div 16777216, (n \div 65536) % 256, (n \div 256) % 256, n % 256>>
Zeros(n) == [i \in 1..n |-> 0]

\* A b-tree page of `size` bytes whose first `skip` bytes are the file header
\* (100 on page 1, 0 elsewhere): the 8- or 12-byte page header, the cell
\* pointer array, free space, and the cells at the end of the page.  Cell
\* pointers count from the start of the page.
BTreePage(type, right, cells, size, skip) ==
  LET lens == [i \in 1..Len(cells) |-> Len(cells[i])]
      start == size - SumSeq(lens)
      ptr(i) == start + SumSeq(SubSeq(lens, 1, i - 1))
      header == <<type, 0, 0>> \o U16Bytes(Len(cells)) \o U16Bytes(start) \o <<0>>
                  \o (IF type \in {2, 5} THEN U32Bytes(right) ELSE <<>>)
      pointers == Flatten([i \in 1..Len(cells) |-> U16Bytes(ptr(i))])
      used == skip + Len(header) + Len(pointers)
  IN Zeros(skip) \o header \o pointers \o Zeros(start - used) \o Flatten(cells)

\* A table leaf cell: payload size, rowid, the local payload and, when the
\* payload spills, the first overflow page.
LeafCellBytes(size, rowid, local, overflow) ==
  FormatVarint(size) \o FormatVarint(rowid) \o local
    \o (IF overflow = None THEN <<>> ELSE U32Bytes(overflow[1]))

\* Byte i (from 1) of a generated payload.
PayloadByte(i) == 1 + (i % 199)
Payload(n) == [i \in 1..n |-> PayloadByte(i)]

\* Page size of the files written for the overflow assembler.
OverflowPageSize == 32

\* Largest payload written for the overflow assembler.
MaxPayload == 70

\* The local capacities (bytes from the payload's start to the end of the
\* page) the spilling cells are written with.
LocalSpaces == {4, 9, 12}

\* fixture.payload_size bytes of payload in a cell on page 2; what does not
\* fit fixture.space is chained through pages 3, 4, ...  Each overflow page
\* holds up to page size - 4 content bytes and the number of the next page
\* (0 on the last): content then pointer ("content_first", the layout
\* get_full_payload reads) or pointer then content ("pointer_first").
Spills(fx) == fx.payload_size > fx.space

LocalLen(fx) == IF Spills(fx) THEN fx.space - 4 ELSE fx.payload_size

ChainPages(fx, size) ==
  IF Spills(fx)
  THEN (fx.payload_size - LocalLen(fx) + (size - 4) - 1) \div (size - 4)
  ELSE 0

OverflowPageBytes(fx, size, k) ==
  LET from == LocalLen(fx) + (k - 1) * (size - 4)
      upto == IF from + (size - 4) < fx.payload_size THEN from + (size - 4)
              ELSE fx.payload_size
      content == SubSeq(Payload(fx.payload_size), from + 1, upto)
      next == U32Bytes(IF k < ChainPages(fx, size) THEN 2 + k + 1 ELSE 0)
      used == IF fx.layout = "content_first" THEN content \o next
              ELSE next \o content
  IN used \o Zeros(size - Len(used))

OverflowFile(fx, size) ==
  LET local == SubSeq(Payload(fx.payload_size), 1, LocalLen(fx))
      c == LeafCellBytes(fx.payload_size, fx.rowid, local,
                         IF Spills(fx) THEN Some(3) ELSE None)
  IN Zeros(size) \o BTreePage(13, 0, <<c>>, size, 0)
       \o Flatten([k \in 1..ChainPages(fx, size) |-> OverflowPageBytes(fx, size, k)])

OverflowFixtures ==
  [kind : {"overflow"}, payload_size : (0..MaxPayload) \cup {130, 300},
   space : LocalSpaces, layout : {"content_first", "pointer_first"}, rowid : {7}]

OverflowInit ==
  /\ pc = "ov_start"
  /\ build \in {"debug", "release"}
  /\ fixture \in OverflowFixtures
  /\ page_size = OverflowPageSize
  /\ file = OverflowFile(fixture, page_size)
  /\ OverflowIdle
  /\ OverflowOthersIdle

\* btree_from_page on the leaf page, as the callers of get_full_payload do.
DecodeLeaf ==
  /\ pc = "ov_start"
  /\ btree' = btree_from_page(file, page_size, build, 2)
  /\ IF btree'.status = "ok" /\ btree'.cells # <<>>
     THEN cell' = btree'.cells[1] /\ pc' = "ov_decoded"
     ELSE cell' = cell /\ pc' = "ov_failed"
  /\ UNCHANGED <<payloadOut, fileVars, overflowOthers>>

GetFullPayload ==
  /\ pc = "ov_decoded"
  /\ payloadOut' = get_full_payload(file, page_size, build, cell)
  /\ pc' = "ov_done"
  /\ UNCHANGED <<btree, cell, fileVars, overflowOthers>>

OverflowNext == DecodeLeaf \/ GetFullPayload

SpecOverflow == OverflowInit /\ [][OverflowNext]_vars

\* C1: for every TableLeaf cell whose declared payload_size exceeds the
\* page's local capacity and whose overflow chain is well formed,
\* get_full_payload returns exactly payload_size bytes: the local prefix
\* followed by the content of each overflow page in chain order.
C1_OverflowReassembly ==
  (pc = "ov_done" /\ Spills(fixture) /\ fixture.layout = "content_first") =>
    /\ payloadOut.status = "ok"
    /\ Len(payloadOut.payload) = fixture.payload_size
    /\ payloadOut.payload = Payload(fixture.payload_size)

-----------------------------------------------------------------------------
(* Schemas and statements (parser/schema.rs, parser/select.rs) *)

\* A String is the sequence of its bytes.  str::to_uppercase, on ASCII text.
to_uppercase(s) == [i \in 1..Len(s) |-> IF s[i] \in 97..122 THEN s[i] - 32 ELSE s[i]]

\* The literals "table", "ROWID" and "NULL".
STR_table == <<116, 97, 98, 108, 101>>
STR_ROWID == <<82, 79, 87, 73, 68>>
STR_NULL == <<78, 85, 76, 76>>

\* Column
All == [kind |-> "All", name |-> <<>>]
Count == [kind |-> "Count", name |-> <<>>]
Named(name) == [kind |-> "Named", name |-> name]

\* SelectStatement (select_columns never reads where_clause)
SelectStatement(columns, from) == [columns |-> columns, from |-> from]

ColumnDef(name, is_rowid) == [name |-> name, is_rowid |-> is_rowid]
SchemaStatement(table_name, columns) == [table_name |-> table_name, columns |-> columns]

\* HashMap<String, usize>: a function from the keys to the positions.
HashMap_new == <<>>
HashMap_insert(map, k, val) ==
  [x \in (DOMAIN map) \cup {k} |-> IF x = k THEN val ELSE map[x]]

\* SchemaStatement::to_column_map: the rowid column becomes the alias, every
\* other column gets the next payload index.
RECURSIVE to_column_map_loop(_, _, _, _, _)
to_column_map_loop(columns, i, column_map, rowid_alias, payload_idx) ==
  IF i > Len(columns) THEN <<column_map, rowid_alias>>
  ELSE IF columns[i].is_rowid
  THEN to_column_map_loop(columns, i + 1, column_map, Some(columns[i].name), payload_idx)
  ELSE to_column_map_loop(columns, i + 1,
                          HashMap_insert(column_map, columns[i].name, payload_idx),
                          rowid_alias, payload_idx + 1)

to_column_map(schema_stmt) ==
  to_column_map_loop(schema_stmt.columns, 1, HashMap_new, None, 0)

\* The tables whose CREATE TABLE statements the model's files hold, as
\* schema::parse returns them:
\*   1  CREATE TABLE t (id INTEGER PRIMARY KEY, a TEXT, b TEXT)
\*   2  CREATE TABLE t (a TEXT, b TEXT)
\*   3  CREATE TABLE t (a TEXT, id INTEGER PRIMARY KEY, b TEXT)
Schemas ==
  <<SchemaStatement(<<116>>, <<ColumnDef(<<105, 100>>, TRUE), ColumnDef(<<97>>, FALSE),
                                ColumnDef(<<98>>, FALSE)>>),
    SchemaStatement(<<116>>, <<ColumnDef(<<97>>, FALSE), ColumnDef(<<98>>, FALSE)>>),
    SchemaStatement(<<116>>, <<ColumnDef(<<97>>, FALSE), ColumnDef(<<105, 100>>, TRUE),
                                ColumnDef(<<98>>, FALSE)>>)>>

\* The sql text of statement k is written as the one character k; every
\* other text is not a CREATE TABLE statement.
SqlText(k) == <<48 + k>>

\* schema::parse on the texts above.
schema_parse(sql) ==
  IF Len(sql) = 1 /\ (sql[1] - 48) \in 1..Len(Schemas)
  THEN [status |-> "ok", stmt |-> Schemas[sql[1] - 48]]
  ELSE [status |-> "err", stmt |-> SchemaStatement(<<>>, <<>>)]

-----------------------------------------------------------------------------
(* SQLite (lib.rs): schema lookup, projection, row count *)

\* SQLite::record_from_cell
record_from_cell(f, size, how_built, c) ==
  With(get_full_payload(f, size, how_built, c), LAMBDA full_payload :
    IF full_payload.status # "ok"
    THEN RecordOut(full_payload.status, 0, <<>>, <<>>, 0)
    ELSE parse(full_payload.payload))

\* `value as u32` on an i64: the low 32 bits (Huge from 2^30 on).
AsU32(w) == IF w[31] = 1 \/ w[32] = 1 THEN Huge ELSE Low(w, 30)

\* The loop of select_columns that looks the table up on the schema page:
\* the first TableLeaf cell whose record's values[2], upper-cased, is
\* from_upper gives rootpage = values[3] as u32.  values[k] past the record,
\* as_text on a non-Text and as_integer on a non-Integer panic.
RECURSIVE find_rootpage(_, _, _, _, _, _)
find_rootpage(f, size, how_built, cells, from_upper, i) ==
  IF i > Len(cells) THEN [status |-> "ok", rootpage |-> None]
  ELSE IF cells[i].kind # "TableLeaf"
  THEN find_rootpage(f, size, how_built, cells, from_upper, i + 1)
  ELSE With(record_from_cell(f, size, how_built, cells[i]), LAMBDA record :
         IF record.status # "ok" THEN [status |-> record.status, rootpage |-> None]
         ELSE IF Len(record.values) < 3 \/ record.values[3].tag # "Text"
         THEN [status |-> "panic", rootpage |-> None]
         ELSE IF to_uppercase(record.values[3].bytes) # from_upper
         THEN find_rootpage(f, size, how_built, cells, from_upper, i + 1)
         ELSE IF Len(record.values) < 4 \/ record.values[4].tag # "Integer"
         THEN [status |-> "panic", rootpage |-> None]
         ELSE [status |-> "ok", rootpage |-> Some(AsU32(record.values[4].bits))])

SchemaOut(how, column_map, rowid_alias) ==
  [status |-> how, column_map |-> column_map, rowid_alias |-> rowid_alias]

\* The loop of get_table_schema: the first TableLeaf cell whose values[2],
\* upper-cased, is the table name and whose values[0] is "table" gives the
\* column map of its parsed values[4].
RECURSIVE get_table_schema_loop(_, _, _, _, _, _)
get_table_schema_loop(f, size, how_built, cells, table_name_upper, i) ==
  IF i > Len(cells) THEN SchemaOut("err", HashMap_new, None)
  ELSE IF cells[i].kind # "TableLeaf"
  THEN get_table_schema_loop(f, size, how_built, cells, table_name_upper, i + 1)
  ELSE With(record_from_cell(f, size, how_built, cells[i]), LAMBDA record :
         IF record.status # "ok" THEN SchemaOut(record.status, HashMap_new, None)
         ELSE IF Len(record.values) < 3 \/ record.values[3].tag # "Text"
         THEN SchemaOut("panic", HashMap_new, None)
         ELSE IF to_uppercase(record.values[3].bytes) # table_name_upper
         THEN get_table_schema_loop(f, size, how_built, cells, table_name_upper, i + 1)
         ELSE IF record.values[1].tag # "Text" THEN SchemaOut("panic", HashMap_new, None)
         ELSE IF record.values[1].bytes # STR_table
         THEN get_table_schema_loop(f, size, how_built, cells, table_name_upper, i + 1)
         ELSE IF Len(record.values) < 5 \/ record.values[5].tag # "Text"
         THEN SchemaOut("panic", HashMap_new, None)
         ELSE With(schema_parse(record.values[5].bytes), LAMBDA schema_stmt :
                IF schema_stmt.status # "ok" THEN SchemaOut("err", HashMap_new, None)
                ELSE With(to_column_map(schema_stmt.stmt), LAMBDA m :
                       SchemaOut("ok", m[1], m[2]))))

\* SQLite::get_table_schema
get_table_schema(f, size, how_built, table_name) ==
  With(btree_from_page(f, size, how_built, 1), LAMBDA schema_btree :
    IF schema_btree.status # "ok" THEN SchemaOut(schema_btree.status, HashMap_new, None)
    ELSE get_table_schema_loop(f, size, how_built, schema_btree.cells,
                               to_uppercase(table_name), 1))

\* usize::MAX, the position that stands for the row id.
usize_MAX == Huge

SelOut(how, message) == [status |-> how, message |-> message]

Prepared(how, message, root_page, bt, column_map, rowid_alias) ==
  [status |-> how, message |-> message, root_page |-> root_page, btree |-> bt,
   column_map |-> column_map, rowid_alias |-> rowid_alias, column_positions |-> <<>>]

NoBTree == [status |-> "none"]

\* select_columns up to its match: the root page of stmt.from on the schema
\* page, the BTree of the root page, the column map and the rowid alias.
select_prepare(f, size, how_built, st) ==
  LET failed(how, message) == Prepared(how, message, 0, NoBTree, HashMap_new, None)
  IN With(btree_from_page(f, size, how_built, 1), LAMBDA schema_btree :
       IF schema_btree.status # "ok" THEN failed(schema_btree.status, "Failed to load page")
       ELSE With(find_rootpage(f, size, how_built, schema_btree.cells,
                               to_uppercase(st.from), 1), LAMBDA found :
         IF found.status # "ok" THEN failed(found.status, "record")
         ELSE IF found.rootpage = None THEN failed("err", "Table not found")
         ELSE With(btree_from_page(f, size, how_built, found.rootpage[1]), LAMBDA bt :
           IF bt.status # "ok" THEN failed(bt.status, "Failed to load page")
           ELSE With(get_table_schema(f, size, how_built, st.from), LAMBDA schema :
             IF schema.status # "ok"
             THEN failed(schema.status, "Table schema not found")
             ELSE Prepared("ok", "", found.rootpage[1], bt, schema.column_map,
                           schema.rowid_alias)))))

\* column_map.into_iter().sorted_by_key(|(_, pos)| *pos)
RECURSIVE sorted_by_key(_)
sorted_by_key(column_map) ==
  IF DOMAIN column_map = {} THEN <<>>
  ELSE LET k == CHOOSE k \in DOMAIN column_map :
                  \A j \in DOMAIN column_map : column_map[k] <= column_map[j]
       IN <<<<k, column_map[k]>>>>
            \o sorted_by_key([x \in (DOMAIN column_map) \ {k} |-> column_map[x]])

\* The closure without its "Unknown column" error: a name that is no key of
\* the map is given payload position 0.
named_position_lenient(col, column_map, rowid_alias) ==
  {<<col.name, IF col.name \in DOMAIN column_map THEN column_map[col.name] ELSE 0>>}

\* The closure select_columns maps over the named columns: the Ok results it
\* can return for one column (none: Err "Unknown column").  HashMap::iter
\* visits the keys in no fixed order, so find may return any matching key.
named_position(col, column_map, rowid_alias) ==
  LET name_upper == to_uppercase(col.name)
  IN IF rowid_alias # None
        /\ (name_upper = to_uppercase(rowid_alias[1]) \/ name_upper = STR_ROWID)
     THEN {<<col.name, usize_MAX>>}
     ELSE {<<k, column_map[k]>> :
             k \in {x \in DOMAIN column_map : to_uppercase(x) = name_upper}}

\* .collect::<Result<Vec<_>>>(): the vectors it can return (none: Err).
RECURSIVE collect_positions(_, _, _)
collect_positions(cols, column_map, rowid_alias) ==
  IF cols = <<>> THEN {<<>>}
  ELSE {<<h>> \o t : h \in named_position(cols[1], column_map, rowid_alias),
                     t \in collect_positions(Tail(cols), column_map, rowid_alias)}

\* The last arm of select_columns' match, up to the call of print_rows: the
\* column_positions it can pass on, or the error it returns.
column_positions_of(cols, column_map, rowid_alias) ==
  LET has_all == \E i \in 1..Len(cols) : cols[i] = All
  IN IF has_all
     THEN IF Len(cols) > 1
          THEN [status |-> "err", choices |-> {},
                message |-> "SELECT * cannot be combined with other columns"]
          ELSE [status |-> "ok", message |-> "",
                choices |-> {(IF rowid_alias # None
                              THEN <<<<rowid_alias[1], usize_MAX>>>> ELSE <<>>)
                               \o sorted_by_key(column_map)}]
     ELSE With(collect_positions(cols, column_map, rowid_alias), LAMBDA found :
            IF found = {}
            THEN [status |-> "err", choices |-> {}, message |-> "Unknown column"]
            ELSE [status |-> "ok", choices |-> found, message |-> ""])

\* `!w` and `-w` on a word.
BitNot(w) == [i \in 1..W |-> 1 - w[i]]
WrappingNeg(w) == WrappingAdd(BitNot(w), U64(1))

\* What to_string writes: text, or the decimal digits of a magnitude (kept as
\* the word) after an optional minus sign, or a float, or a byte list.
Written(form, sign, bits, bytes) ==
  [form |-> form, sign |-> sign, bits |-> bits, bytes |-> bytes]

\* u64::to_string (the row id)
u64_to_string(w) == Written("decimal", "", w, <<>>)

\* Display for Value
to_string(value) ==
  CASE value.tag = "Null" -> Written("text", "", <<>>, STR_NULL)
    [] value.tag = "Integer" ->
         IF value.bits[W] = 1 THEN Written("decimal", "-", WrappingNeg(value.bits), <<>>)
         ELSE Written("decimal", "", value.bits, <<>>)
    [] value.tag = "Float" -> Written("float", "", value.bits, <<>>)
    [] value.tag = "Blob" -> Written("debug", "", <<>>, value.bytes)
    [] value.tag = "Text" -> Written("text", "", <<>>, value.bytes)

\* The body of print_rows' inner loop for one (name, pos): the string pushed
\* onto the row; values[pos + 1] past the record panics.
row_entry(row_id, record, pos) ==
  IF pos = usize_MAX THEN [status |-> "ok", text |-> u64_to_string(row_id)]
  ELSE IF pos < Len(record.values)
  THEN IF pos + 1 >= Len(record.values)
       THEN [status |-> "panic", text |-> Written("text", "", <<>>, <<>>)]
       ELSE [status |-> "ok", text |-> to_string(record.values[pos + 2])]
  ELSE [status |-> "ok", text |-> Written("text", "", <<>>, STR_NULL)]

\* One line of standard output.
RowLine(row) == [kind |-> "row", row |-> row, count |-> 0]
CountLine(n) == [kind |-> "count", row |-> <<>>, count |-> n]

\* Deepest nesting of count_rows_in_btree calls the model follows.
MaxDepth == 3

Frame(cells, i, total) == [cells |-> cells, i |-> i, total |-> total]
Ret(how, count) == [status |-> how, count |-> count]

\* select_columns returns (or the process panics).
Return(how, message) ==
  /\ selOut' = SelOut(how, message)
  /\ pc' = "sel_done"

\* select_columns from its entry to the first count_rows_in_btree call, to
\* the call of print_rows, or to its error return.
SelectColumns ==
  /\ pc = "sel_start"
  /\ \E p \in {select_prepare(file, page_size, build, stmt)} :
       IF p.status # "ok"
       THEN Return(p.status, p.message) /\ UNCHANGED <<sel, callee>>
       ELSE IF stmt.columns = <<Count>>
       THEN sel' = p /\ callee' = p.root_page /\ pc' = "count_call"
            /\ UNCHANGED selOut
       ELSE IF \E i \in 1..Len(stmt.columns) : stmt.columns[i] = Count
       THEN Return("err", "COUNT(*) must be the only column in the query")
            /\ UNCHANGED <<sel, callee>>
       ELSE \E c \in {column_positions_of(stmt.columns, p.column_map, p.rowid_alias)} :
              IF c.status # "ok"
              THEN Return(c.status, c.message) /\ UNCHANGED <<sel, callee>>
              ELSE /\ \E column_positions \in c.choices :
                        sel' = [p EXCEPT !.column_positions = column_positions]
                   /\ pc' = "print_rows"
                   /\ UNCHANGED <<selOut, callee>>
  /\ UNCHANGED <<stmt, idx, stack, ret, stdout, fileVars, selectOthers>>

\* print_rows: one iteration of `for cell in &btree.cells`.
PrintRow ==
  /\ pc = "print_rows"
  /\ idx < Len(sel.btree.cells)
  /\ LET c == sel.btree.cells[idx + 1]
         n == Len(sel.column_positions)
     IN IF c.kind # "TableLeaf"
        THEN idx' = idx + 1 /\ UNCHANGED <<pc, stdout, selOut>>
        ELSE \E record \in {record_from_cell(file, page_size, build, c)} :
               IF record.status # "ok"
               THEN Return(record.status, "record") /\ UNCHANGED <<idx, stdout>>
               ELSE \E row \in {[k \in 1..n |->
                                   row_entry(c.row_id, record, sel.column_positions[k][2])]} :
                      IF \E k \in 1..n : row[k].status # "ok"
                      THEN Return("panic", "index out of bounds")
                           /\ UNCHANGED <<idx, stdout>>
                      ELSE /\ stdout' = Append(stdout, RowLine([k \in 1..n |-> row[k].text]))
                           /\ idx' = idx + 1
                           /\ UNCHANGED <<pc, selOut>>
  /\ UNCHANGED <<stmt, sel, stack, callee, ret, fileVars, selectOthers>>

\* print_rows and select_columns return Ok(()).
PrintDone ==
  /\ pc = "print_rows"
  /\ idx = Len(sel.btree.cells)
  /\ Return("ok", "")
  /\ UNCHANGED <<stmt, sel, idx, stack, callee, ret, stdout, fileVars, selectOthers>>

\* count_rows_in_btree(callee) from its entry to its first recursive call or
\* its return: the page is decoded; a leaf returns the number of its
\* TableLeaf cells, an interior page starts its loop, any other type is an
\* error.
CountCall ==
  /\ pc = "count_call"
  /\ Len(stack) < MaxDepth
  /\ \E bt \in {btree_from_page(file, page_size, build, callee)} :
       IF bt.status = "panic"
       THEN Return("panic", "decode") /\ UNCHANGED <<stack, ret>>
       ELSE IF bt.status # "ok"
       THEN ret' = Ret("err", 0) /\ pc' = "count_return" /\ UNCHANGED <<stack, selOut>>
       ELSE IF bt.header.page_type = 13
       THEN /\ ret' = Ret("ok", Cardinality({k \in 1..Len(bt.cells) :
                                               bt.cells[k].kind = "TableLeaf"}))
            /\ pc' = "count_return"
            /\ UNCHANGED <<stack, selOut>>
       ELSE IF bt.header.page_type = 5
       THEN /\ stack' = Append(stack, Frame(bt.cells, 0, 0))
            /\ pc' = "count_loop"
            /\ UNCHANGED <<ret, selOut>>
       ELSE ret' = Ret("err", 0) /\ pc' = "count_return" /\ UNCHANGED <<stack, selOut>>
  /\ UNCHANGED <<stmt, sel, idx, callee, stdout, fileVars, selectOthers>>

\* The interior arm's `for cell in &btree.cells`: the next TableInterior
\* cell's left child is counted; after the last cell the call returns total.
CountLoop ==
  /\ pc = "count_loop"
  /\ LET top == stack[Len(stack)]
     IN IF top.i < Len(top.cells)
        THEN IF top.cells[top.i + 1].kind = "TableInterior"
             THEN /\ callee' = top.cells[top.i + 1].left_child_page
                  /\ pc' = "count_call"
                  /\ UNCHANGED <<stack, ret>>
             ELSE /\ stack' = [stack EXCEPT ![Len(stack)].i = top.i + 1]
                  /\ UNCHANGED <<pc, callee, ret>>
        ELSE /\ ret' = Ret("ok", top.total)
             /\ stack' = SubSeq(stack, 1, Len(stack) - 1)
             /\ pc' = "count_return"
             /\ UNCHANGED callee
  /\ UNCHANGED <<stmt, sel, idx, stdout, selOut, fileVars, selectOthers>>

\* A count_rows_in_btree call has returned: to the loop of its caller
\* (`total += ...?`), or to select_columns, which prints the count.
CountReturn ==
  /\ pc = "count_return"
  /\ IF stack # <<>>
     THEN LET top == stack[Len(stack)]
          IN IF ret.status # "ok"
             THEN /\ stack' = SubSeq(stack, 1, Len(stack) - 1)
                  /\ UNCHANGED <<pc, stdout, selOut>>
             ELSE /\ stack' = [stack EXCEPT ![Len(stack)] =
                                 Frame(top.cells, top.i + 1, top.total + ret.count)]
                  /\ pc' = "count_loop"
                  /\ UNCHANGED <<stdout, selOut>>
     ELSE IF ret.status # "ok"
          THEN Return("err", "Failed to load page") /\ UNCHANGED <<stack, stdout>>
          ELSE /\ stdout' = Append(stdout, CountLine(ret.count))
               /\ Return("ok", "")
               /\ UNCHANGED stack
  /\ UNCHANGED <<stmt, sel, idx, callee, ret, fileVars, selectOthers>>

-----------------------------------------------------------------------------
(* Database files with one table *)

\* Page size of the database files.
DbPageSize == 128

\* Most rows on a leaf page and most children of an interior page written.
MaxLeafRows == 2
MaxChildren == 3

\* Most columns in a statement's column list.
MaxSelectCols == 2

\* Page number of the table's root page.
RootPage == 2

\* The names "t", "T", "u" and "a", "B", "id", "RowId", "z".
TableNames == {<<116>>, <<84>>, <<117>>}
ColumnNames == {<<97>>, <<66>>, <<105, 100>>, <<82, 111, 119, 73, 100>>, <<122>>}

\* The record of the schema page's row for table `name`: type, name,
\* tbl_name, rootpage, sql.
SchemaRecordBytes(name, rootpage, sql) ==
  RecordHeader(<<13 + 2 * Len(STR_table), 13 + 2 * Len(name), 13 + 2 * Len(name), 1,
                 13 + 2 * Len(sql)>>)
    \o STR_table \o name \o name \o <<rootpage>> \o sql

\* The value stored in row `rowid` for the column declared at index j
\* (from 1): NULL for the rowid column, else a two-character text.
StoredValue(schema_stmt, j, rowid) ==
  IF schema_stmt.columns[j].is_rowid THEN Null ELSE Text(<<64 + j, 48 + rowid>>)

\* The record of a row: one value for each of the first `stored` declared
\* columns (a row written before the later columns were added has fewer
\* values than the table has columns).
RowRecordBytes(schema_stmt, stored, rowid) ==
  LET vals == [j \in 1..stored |-> StoredValue(schema_stmt, j, rowid)]
  IN RecordHeader([j \in 1..stored |->
                     IF vals[j].tag = "Null" THEN 0 ELSE 13 + 2 * Len(vals[j].bytes)])
       \o Flatten([j \in 1..stored |-> vals[j].bytes])

RowCellBytes(schema_stmt, stored, rowid) ==
  LET rec == RowRecordBytes(schema_stmt, stored, rowid)
  IN LeafCellBytes(Len(rec), rowid, rec, None)

\* A table interior cell: left child page, then the largest row id below it.
InteriorCellBytes(left, key) == U32Bytes(left) \o FormatVarint(key)

\* fixture.tree.rows[j] is the number of rows on the j-th leaf.  A leaf root
\* is the only leaf; under an interior root the leaves are the pages after it:
\* one TableInterior cell for each leaf but the last, which is the
\* right-most pointer.  Row ids count up from 1 across the leaves.
RowsBefore(rows, j) == SumSeq(SubSeq(rows, 1, j - 1))

LeafPageBytes(fx, j, size) ==
  BTreePage(13, 0,
            [i \in 1..fx.tree.rows[j] |->
               RowCellBytes(Schemas[fx.schema], fx.stored, RowsBefore(fx.tree.rows, j) + i)],
            size, 0)

InteriorPageBytes(fx, size) ==
  LET n == Len(fx.tree.rows)
  IN BTreePage(5, RootPage + n,
               [j \in 1..(n - 1) |->
                  InteriorCellBytes(RootPage + j, RowsBefore(fx.tree.rows, j + 1))],
               size, 0)

SchemaPageBytes(fx, size) ==
  LET rec == SchemaRecordBytes(Schemas[fx.schema].table_name, RootPage, SqlText(fx.schema))
  IN BTreePage(13, 0, <<LeafCellBytes(Len(rec), 1, rec, None)>>, size, Page1Offset)

DbFile(fx, size) ==
  SchemaPageBytes(fx, size) \o Zeros((RootPage - 2) * size)
    \o (IF fx.tree.interior
        THEN InteriorPageBytes(fx, size)
               \o Flatten([j \in 1..Len(fx.tree.rows) |-> LeafPageBytes(fx, j, size)])
        ELSE LeafPageBytes(fx, 1, size))

\* Number of rows of the table.
TotalRows(fx) == SumSeq(fx.tree.rows)

LeafRoots == {[interior |-> FALSE, rows |-> <<n>>] : n \in (0..MaxLeafRows) \cup {5}}
InteriorRoots ==
  {[interior |-> TRUE, rows |-> r] :
     r \in {s \in SeqsUpTo(0..MaxLeafRows, MaxChildren) : s # <<>>} \cup {<<3, 4, 5>>}}

\* The trees projections are run on.
ProjectedTrees ==
  {[interior |-> FALSE, rows |-> <<0>>], [interior |-> FALSE, rows |-> <<MaxLeafRows>>],
   [interior |-> TRUE, rows |-> <<1, MaxLeafRows>>]}

DbFixtures ==
  {fx \in [kind : {"db"}, schema : 1..Len(Schemas), stored : 1..3,
           tree : LeafRoots \cup InteriorRoots] :
     fx.stored <= Len(Schemas[fx.schema].columns)}

ColumnChoices == {All, Count} \cup {Named(n) : n \in ColumnNames}

\* One to MaxSelectCols columns from the table "t", or one column from any
\* of the table names.
Statements ==
  {SelectStatement(cols, <<116>>) :
     cols \in {s \in SeqsUpTo(ColumnChoices, MaxSelectCols) : s # <<>>}}
    \cup {SelectStatement(<<c>>, from) : c \in ColumnChoices, from \in TableNames}

SelectInit ==
  /\ pc = "sel_start"
  /\ build \in {"debug", "release"}
  /\ fixture \in DbFixtures
  /\ page_size = DbPageSize
  /\ file = DbFile(fixture, page_size)
  /\ stmt \in IF fixture.tree \in ProjectedTrees THEN Statements
              ELSE {SelectStatement(<<Count>>, <<116>>)}
  /\ sel = [status |-> "none"]
  /\ idx = 0 /\ stack = <<>> /\ callee = 0
  /\ ret = [status |-> "none"]
  /\ stdout = <<>>
  /\ selOut = [status |-> "none"]
  /\ SelectOthersIdle

SelectNext ==
  \/ SelectColumns
  \/ PrintRow
  \/ PrintDone
  \/ CountCall
  \/ CountLoop
  \/ CountReturn

SpecSelect == SelectInit /\ [][SelectNext]_vars

\* C2: count_rows on a table's root page returns the number of rows of the
\* table: the TableLeaf cells of a leaf root; under an interior root the sum
\* of count_rows over every TableInterior cell's left child plus count_rows
\* of the right-most pointer (leaves of 3, 4 and 5 rows give 12).
C2_RowCount ==
  (pc = "count_return" /\ stack = <<>>) => ret = Ret("ok", TotalRows(fixture))

\* C3: a projection that succeeds emits exactly one row for every TableLeaf
\* cell on every leaf page reachable from the table's root page, leaf or
\* interior: as many rows as count_rows of that root.
C3_ProjectionTraversal ==
  (pc = "sel_done" /\ sel.status = "ok" /\ sel.column_positions # <<>>
     /\ selOut.status = "ok") =>
    /\ Len(stdout) = TotalRows(fixture)
    /\ \A r \in 1..Len(stdout) : stdout[r].kind = "row"

\* C9: projecting the rows of a leaf page does not fail, and every requested
\* non-rowid column at column-map position pos is output as NULL when
\* pos + 1 is at or beyond the record's value count and as
\* record.values[pos + 1] otherwise.
C9_SparseRows ==
  (pc = "sel_done" /\ sel.status = "ok" /\ sel.column_positions # <<>>
     /\ ~fixture.tree.interior) =>
    /\ selOut.status = "ok"
    /\ Len(stdout) = Len(sel.btree.cells)
    /\ \A r \in 1..Len(stdout) : \A k \in 1..Len(sel.column_positions) :
         LET record == record_from_cell(file, page_size, build, sel.btree.cells[r])
             pos == sel.column_positions[k][2]
         IN pos # usize_MAX =>
              stdout[r].row[k] = IF pos + 1 >= Len(record.values)
                                 THEN Written("text", "", <<>>, STR_NULL)
                                 ELSE to_string(record.values[pos + 2])

\* A column name that means the row id in the fixture's table: the declared
\* rowid alias, or ROWID, in any case.
NamesRowid(fx, name) ==
  \/ to_uppercase(name) = STR_ROWID
  \/ \E j \in 1..Len(Schemas[fx.schema].columns) :
       /\ Schemas[fx.schema].columns[j].is_rowid
       /\ to_uppercase(name) = to_uppercase(Schemas[fx.schema].columns[j].name)

\* C10: for any table schema, a requested column that names the declared
\* rowid alias, or that is ROWID in any case, is output as the row id of
\* each row (rows of a leaf root have the row ids 1, 2, ...).
C10_RowidMapping ==
  (pc = "sel_done" /\ ~fixture.tree.interior
     /\ to_uppercase(stmt.from) = to_uppercase(Schemas[fixture.schema].table_name)
     /\ \A k \in 1..Len(stmt.columns) :
          stmt.columns[k].kind = "Named" /\ NamesRowid(fixture, stmt.columns[k].name)) =>
    /\ selOut.status = "ok"
    /\ Len(stdout) = TotalRows(fixture)
    /\ \A r \in 1..Len(stdout) : \A k \in 1..Len(stmt.columns) :
         stdout[r].row[k] = u64_to_string(U64(r))

\* The statement names no table of the file.
UnknownTable(fx, st) ==
  to_uppercase(st.from) # to_uppercase(Schemas[fx.schema].table_name)

\* The column names neither a declared column of the fixture's table nor the
\* row id, in any case.
UnknownColumn(fx, col) ==
  /\ col.kind = "Named"
  /\ ~NamesRowid(fx, col.name)
  /\ \A j \in 1..Len(Schemas[fx.schema].columns) :
       to_uppercase(col.name) # to_uppercase(Schemas[fx.schema].columns[j].name)

\* COUNT(*) or * together with another column.
MixedColumns(st) ==
  /\ Len(st.columns) > 1
  /\ \E k \in 1..Len(st.columns) : st.columns[k] \in {Count, All}

QueryError(fx, st) ==
  \/ UnknownTable(fx, st)
  \/ \E k \in 1..Len(st.columns) : UnknownColumn(fx, st.columns[k])
  \/ MixedColumns(st)

\* C11: when the table name is unknown, a named column is unknown, or
\* COUNT(*) or * appears together with another column, select_columns
\* returns an error, never enters the row count or the projection, and
\* prints no row and no count.
C11_QueryErrors ==
  QueryError(fixture, stmt) =>
    /\ stdout = <<>>
    /\ pc \in {"sel_start", "sel_done"}
    /\ pc = "sel_done" => selOut.status = "err"

\* select_columns has returned for a known table and a column list of a
\* declared column followed by an unknown one.
C11_Witness ==
  /\ pc = "sel_done"
  /\ ~UnknownTable(fixture, stmt)
  /\ ~MixedColumns(stmt)
  /\ Len(stmt.columns) = 2
  /\ ~UnknownColumn(fixture, stmt.columns[1])
  /\ UnknownColumn(fixture, stmt.columns[2])
  /\ selOut = SelOut("err", "Unknown column")

-----------------------------------------------------------------------------
(* Files with one b-tree page of any type, and the page loader and decoder
   on them *)

\* Page size of these files; the page written is page 1 or page 2.
PageFixtureSize == 160

\* Most cells written before the last cell of the page.
MaxCellsBefore == 1

\* The four page types and two bytes that are none of them.
KnownPageTypes == {2, 5, 10, 13}
PageTypes == KnownPageTypes \cup {0, 7}

\* The 4 bytes written where a spilling cell keeps its first overflow page.
OverflowPointers ==
  {U32Bytes(0), U32Bytes(3), U32Bytes(MaxOverflowPage), U32Bytes(MaxOverflowPage + 1),
   <<255, 255, 255, 255>>}

\* The last cell of a page declares payload_size bytes of payload and has
\* `space` bytes from the start of its payload to the end of the page: a
\* payload that fits; one that spills (space - 4 local bytes, then the
\* pointer); one cut short with no room left for a pointer.
NoCell == [payload_size |-> 0, space |-> 0, pointer |-> <<>>, written |-> FALSE]
LastCell(s, c, p) == [payload_size |-> s, space |-> c, pointer |-> p, written |-> TRUE]
LastCells ==
  {LastCell(s, s, <<>>) : s \in {0, 3}}
    \cup {LastCell(s, c, p) : s \in {7, 40, 120}, c \in {4, 6}, p \in OverflowPointers}
    \cup {LastCell(9, 2, <<>>)}

LocalWritten(last) ==
  IF last.payload_size <= last.space THEN last.payload_size
  ELSE IF last.space < 4 THEN last.space ELSE last.space - 4

\* What a cell is written from.
CellSource(size, rowid, local, pointer, left) ==
  [payload_size |-> size, row_id |-> rowid, local |-> local, pointer |-> pointer,
   left_child_page |-> left]

\* The cells of the page: fixture.before cells with two bytes of payload,
\* then the last cell.
FixtureCells(fx) ==
  [i \in 1..fx.before |-> CellSource(2, i, <<10 + i, 20 + i>>, <<>>, 2 + i)]
    \o (IF fx.last.written
        THEN <<CellSource(fx.last.payload_size, fx.before + 1,
                          Payload(LocalWritten(fx.last)), fx.last.pointer, 9)>>
        ELSE <<>>)

\* The bytes of a cell before its payload, by page type; a page of no known
\* type holds table leaf cells.
CellHead(type, c) ==
  CASE type = 5 -> U32Bytes(c.left_child_page) \o FormatVarint(c.row_id)
    [] type = 10 -> FormatVarint(c.payload_size)
    [] type = 2 -> U32Bytes(c.left_child_page) \o FormatVarint(c.payload_size)
    [] OTHER -> FormatVarint(c.payload_size) \o FormatVarint(c.row_id)

CellBytes(type, c) ==
  CellHead(type, c) \o (IF type = 5 THEN <<>> ELSE c.local \o c.pointer)

\* The page with n bytes from `from` on (from 0) set to zero.
ZeroAt(bytes, from, n) ==
  [i \in 1..Len(bytes) |-> IF i > from /\ i <= from + n THEN 0 ELSE bytes[i]]

\* Bytes that differ from page to page, for the pages that are not b-trees.
FillerPage(k, size) == [i \in 1..size |-> 200 + ((7 * k + i) % 50)]

PageSkip(number) == IF number = 1 THEN Page1Offset ELSE 0

\* The b-tree page: its cell content start is as the cells lie, or zero.
FixturePage(fx, size) ==
  LET cells == FixtureCells(fx)
      written == BTreePage(fx.type, 3, [i \in 1..Len(cells) |-> CellBytes(fx.type, cells[i])],
                           size, PageSkip(fx.number))
  IN IF fx.content_start = "zero" THEN ZeroAt(written, PageSkip(fx.number) + 5, 2)
     ELSE written

\* Pages 1 .. fixture.number, and one more page when fixture.trailing.
PageFile(fx, size) ==
  (IF fx.number = 1 THEN <<>> ELSE Zeros(Page1Offset) \o FillerPage(1, size - Page1Offset))
    \o FixturePage(fx, size)
    \o (IF fx.trailing THEN FillerPage(fx.number + 1, size) ELSE <<>>)

PageFixtures ==
  [kind : {"page"}, number : {1, 2}, type : PageTypes, before : 0..MaxCellsBefore,
   last : LastCells \cup {NoCell}, content_start : {"written", "zero"},
   trailing : BOOLEAN]

\* The page numbers handed to load_page: 0, the pages of the file, and one
\* past them.
PageNumbers(fx) == 0..(fx.number + 2)

PageInit ==
  /\ pc = "page_start"
  /\ build \in {"debug", "release"}
  /\ fixture \in PageFixtures
  /\ page_size = PageFixtureSize
  /\ file = PageFile(fixture, page_size)
  /\ OverflowIdle
  /\ LoaderIdle
  /\ OverflowOthersIdle

\* SQLite::load_page on any page number.
LoadPage ==
  /\ pc = "page_start"
  /\ \E page_num \in PageNumbers(fixture) :
       loaded' = load_page(file, page_size, build, page_num)
  /\ pc' = "page_loaded"
  /\ UNCHANGED <<db_header, fileVars, overflowVars, chainVars, varintVars, readVarintVars,
                 recordVars, selectVars>>

\* SQLite::btree_from_page on the b-tree page of the file.
BTreeFromPage ==
  /\ pc = "page_start"
  /\ btree' = btree_from_page(file, page_size, build, fixture.number)
  /\ loaded' = btree'.page
  /\ pc' = "page_decoded"
  /\ UNCHANGED <<db_header, cell, payloadOut, fileVars, chainVars, varintVars, readVarintVars,
                 recordVars, selectVars>>

PageNext == LoadPage \/ BTreeFromPage

SpecPage == PageInit /\ [][PageNext]_vars

\* C12: decoding a page whose type byte is none of 0x02, 0x05, 0x0A, 0x0D
\* fails and yields no BTree, whatever the cell count in its header, zero
\* included.
C12_UnknownPageType ==
  (pc = "page_decoded" /\ loaded.status = "ok"
     /\ loaded.data[1] \notin KnownPageTypes) =>
    btree.status # "ok"

\* File byte at which the page header of page `number` lies, and the file
\* byte at which the cell designated by pointer value p on that page starts:
\* page 1 starts at file byte 0 and its header follows the 100-byte file
\* header.
HeaderFileByte(number, size) == IF number = 1 THEN Page1Offset ELSE (number - 1) * size
CellFileByte(number, size, p) == (number - 1) * size + p

\* C13: on a leaf page, the cell decoded for pointer value p is the cell
\* whose bytes start at file byte p on page 1 (index p - 100 of the buffer,
\* which starts at file byte 100) and at index p of the buffer on any other
\* page; the page header of page 1 is read from file byte 100.
C13_Page1Offset ==
  (pc = "page_decoded" /\ loaded.status = "ok" /\ fixture.type \in {10, 13}) =>
    LET cells == FixtureCells(fixture)
        at == HeaderFileByte(fixture.number, page_size)
    IN /\ btree.status = "ok"
       /\ loaded.data = SubSeq(file, at + 1, at + page_size)
       /\ btree.header.page_type = file[at + 1]
       /\ btree.header.num_cells = read_u16(file, at + 3)
       /\ Len(btree.cells) = Len(cells)
       /\ \A i \in 1..Len(cells) :
            LET p == read_u16(file, at + 8 + 2 * (i - 1))
                start == CellFileByte(fixture.number, page_size, p)
                bytes == CellBytes(fixture.type, cells[i])
            IN /\ SubSeq(file, start + 1, start + Len(bytes)) = bytes
               /\ btree.cells[i].payload_size = cells[i].payload_size
               /\ fixture.type = 13 => btree.cells[i].row_id = U64(cells[i].row_id)
               /\ cells[i].payload_size = Len(cells[i].local) =>
                    btree.cells[i].payload = cells[i].local

\* Page 1, a table leaf page of two cells, has been decoded.
C13_Witness ==
  /\ pc = "page_decoded"
  /\ fixture.number = 1 /\ fixture.type = 13
  /\ btree.status = "ok"
  /\ Len(btree.cells) = 2
  /\ btree.cells[2].payload = <<2, 3, 4>>

\* C14: the buffer load_page returns for page n >= 1 is the file region of
\* page n, bytes (n - 1) * page_size up to n * page_size; no byte of page
\* n + 1 is part of it.
C14_ExactlyOnePage ==
  (pc = "page_loaded" /\ loaded.status = "ok" /\ loaded.page_number >= 1) =>
    /\ Len(loaded.data) <= page_size
    /\ \A i \in 1..Len(loaded.data) :
         \E at \in ((loaded.page_number - 1) * page_size + 1)..(loaded.page_number * page_size) :
           /\ loaded.data[i] = file[at]
           /\ at = (loaded.page_number - 1) * page_size
                     + (IF loaded.page_number = 1 THEN Page1Offset ELSE 0) + i

-----------------------------------------------------------------------------
(* DbHeader (dbheader/mod.rs), SQLite::open (lib.rs) and the .dbinfo command
   (main.rs) *)

\* u16::is_power_of_two
is_power_of_two(n) == \E k \in 0..15 : n = 2 ^ k

DbHeaderOut(how, size, max, min, leaf, reserved) ==
  [status |-> how, page_size |-> size, max_embedded_payload_fraction |-> max,
   min_embedded_payload_fraction |-> min, leaf_payload_fraction |-> leaf,
   reserved_expansion |-> reserved]

NoDbHeader(how) == DbHeaderOut(how, 0, 0, 0, 0, <<>>)

\* DbHeader::try_from(&[u8; 100]): the fields the assertions read, then the
\* six assertions; a failed assertion panics.
DbHeader_try_from_bytes(bytes) ==
  LET header == DbHeaderOut("ok", read_u16(bytes, 16), bytes[22], bytes[23], bytes[24],
                            SubSeq(bytes, 73, 92))
  IN IF /\ is_power_of_two(header.page_size)
        /\ header.page_size >= 512 /\ header.page_size <= 32768
        /\ header.max_embedded_payload_fraction = 64
        /\ header.min_embedded_payload_fraction = 32
        /\ header.leaf_payload_fraction = 32
        /\ \A i \in 1..Len(header.reserved_expansion) : header.reserved_expansion[i] = 0
     THEN header
     ELSE [header EXCEPT !.status = "panic"]

\* DbHeader::try_from(&mut File): read_exact of 100 bytes, an error on a
\* shorter file.
DbHeader_try_from(f) ==
  IF Len(f) < 100 THEN NoDbHeader("err")
  ELSE DbHeader_try_from_bytes(SubSeq(f, 1, 100))

\* The two lines .dbinfo prints.
DbInfoLines(size, num_cells) ==
  <<[kind |-> "page size", value |-> size], [kind |-> "tables", value |-> num_cells]>>

\* The header string "SQLite format 3\0".
MagicString == <<83, 81, 76, 105, 116, 101, 32, 102, 111, 114, 109, 97, 116, 32, 51, 0>>

\* The 100-byte file header with the given page-size field, payload
\* fractions and reserved bytes.
HeaderBytes(fx) ==
  MagicString \o U16Bytes(fx.page_size_field) \o <<1, 1, 0>>
    \o <<fx.max_fraction, fx.min_fraction, fx.leaf_fraction>>
    \o Zeros(48) \o [i \in 1..20 |-> IF i = 20 THEN fx.reserved ELSE 0] \o Zeros(8)

\* An empty table leaf page header, the start of page 1.
EmptyLeafHeader == <<13, 0, 0, 0, 0>> \o U16Bytes(0) \o <<0>>

\* The file: the header cut at fixture.length bytes, or the header and the
\* first bytes of page 1.
HeaderFile(fx) ==
  IF fx.length <= 100 THEN SubSeq(HeaderBytes(fx), 1, fx.length)
  ELSE HeaderBytes(fx) \o SubSeq(EmptyLeafHeader \o Zeros(fx.length), 1, fx.length - 100)

\* Page-size fields: the powers of two from 512 to 32768, the value 1, and
\* values that are neither.
PageSizeFields ==
  {2 ^ k : k \in 9..15} \cup {1} \cup {0, 2, 256, 511, 513, 768, 32769, 49152, 65535}

FileLengths == {60, 100, 108}

HeaderFixtures ==
  [kind : {"header"}, page_size_field : PageSizeFields, max_fraction : {64, 63},
   min_fraction : {32, 33}, leaf_fraction : {32, 0}, reserved : {0, 1},
   length : FileLengths]

HeaderInit ==
  /\ pc = "header_start"
  /\ build \in {"debug", "release"}
  /\ fixture \in HeaderFixtures
  /\ page_size = 0
  /\ file = HeaderFile(fixture)
  /\ OverflowIdle
  /\ LoaderIdle
  /\ OverflowOthersIdle

\* SQLite::open
Open ==
  /\ pc = "header_start"
  /\ db_header' = DbHeader_try_from(file)
  /\ page_size' = db_header'.page_size
  /\ pc' = "opened"
  /\ UNCHANGED <<loaded, build, file, fixture, overflowVars, chainVars, varintVars, readVarintVars,
                 recordVars, selectVars>>

\* main's ".dbinfo" arm: the header, then page 0 as the schema page, its
\* BTree, and the two lines.
DbInfo ==
  /\ pc = "header_start"
  /\ db_header' = DbHeader_try_from(file)
  /\ page_size' = db_header'.page_size
  /\ IF db_header'.status # "ok"
     THEN UNCHANGED <<loaded, btree, stdout>>
     ELSE /\ loaded' = try_from_file(file, 0, db_header'.page_size, build)
          /\ IF loaded'.status # "ok"
             THEN UNCHANGED <<btree, stdout>>
             ELSE /\ btree' = BTree_new(loaded')
                  /\ stdout' = IF btree'.status # "ok" THEN stdout
                               ELSE DbInfoLines(db_header'.page_size,
                                                btree'.header.num_cells)
  /\ pc' = "dbinfo_done"
  /\ UNCHANGED <<build, file, fixture, cell, payloadOut, chainVars, varintVars, readVarintVars,
                 recordVars, stmt, sel, idx, stack, callee, ret, selOut>>

HeaderNext == Open \/ DbInfo

SpecHeader == HeaderInit /\ [][HeaderNext]_vars

\* C15: a request to load page 0 is rejected with an error and yields no
\* Page and no BTree, and no caller loads page 0 to read the schema page.
C15_PageZero ==
  (loaded.status # "none" /\ loaded.page_number = 0) =>
    /\ loaded.status = "err"
    /\ btree.status = "none"
    /\ pc # "dbinfo_done"

\* The page-size fields the format allows.
ValidPageSizeField(n) == n = 1 \/ (n >= 512 /\ n <= 32768 /\ \E k \in 9..15 : n = 2 ^ k)

\* C19: with the rest of the header valid, the header is accepted when its
\* page-size field is a power of two in [512, 32768] or is 1 (meaning
\* 65536), and rejected for every other value.
C19_PageSizeValidation ==
  (pc = "opened" /\ fixture.length >= 100 /\ fixture.max_fraction = 64
     /\ fixture.min_fraction = 32 /\ fixture.leaf_fraction = 32 /\ fixture.reserved = 0) =>
    (db_header.status = "ok" <=> ValidPageSizeField(fixture.page_size_field))

\* C16: the decoded page header reports the start of the cell content area
\* as 65536 when the two bytes at header offset 5 are zero, and as their
\* big-endian 16-bit value otherwise.
C16_CellContentStart ==
  (pc = "page_decoded" /\ loaded.status = "ok" /\ btree.header.status = "ok") =>
    btree.header.start_cell_content =
      IF loaded.data[6] = 0 /\ loaded.data[7] = 0 THEN 65536
      ELSE loaded.data[6] * 256 + loaded.data[7]

\* On a leaf page: the buffer index at which the payload of cell i (from 1)
\* starts, from the cell pointer written in the file and the bytes written
\* before the payload; and the bytes from there to the end of the buffer.
PayloadOffset(fx, i) ==
  read_u16(file, HeaderFileByte(fx.number, page_size) + 8 + 2 * (i - 1))
    - PageSkip(fx.number) + Len(CellHead(fx.type, FixtureCells(fx)[i]))
Capacity(fx, i) == Len(loaded.data) - PayloadOffset(fx, i)

\* The last four bytes of the buffer, and whether their big-endian value is
\* 0, or is above 1,000,000.
LastFour(data) == SubSeq(data, Len(data) - 3, Len(data))
IsZero32(b) == b = <<0, 0, 0, 0>>
Above1000000(b) == b[1] > 0 \/ b[2] * 65536 + b[3] * 256 + b[4] > 1000000
Value32(b) == b[2] * 65536 + b[3] * 256 + b[4]

\* C17: every decoded TableLeaf, IndexLeaf and IndexInterior cell with no
\* overflow page holds payload_size local bytes, and one with an overflow
\* page has a payload_size above its local capacity.
C17_OverflowInvariant ==
  (pc = "page_decoded" /\ btree.status = "ok") =>
    \A i \in 1..Len(btree.cells) :
      btree.cells[i].kind \in {"TableLeaf", "IndexLeaf", "IndexInterior"} =>
        /\ btree.cells[i].overflow_page = None =>
             Len(btree.cells[i].payload) = btree.cells[i].payload_size
        /\ (btree.cells[i].overflow_page # None /\ fixture.type \in {10, 13}) =>
             btree.cells[i].payload_size > Capacity(fixture, i)

\* C18: on a leaf page, a cell whose payload does not fit its capacity
\* c >= 4 and whose overflow page number (the last 4 bytes of the buffer)
\* is 0 or above 1,000,000 is decoded with no overflow page and with the
\* c - 4 local bytes kept; the page is decoded without failure.
C18_OverflowSanity ==
  (pc = "page_decoded" /\ loaded.status = "ok" /\ fixture.type \in {10, 13}) =>
    /\ btree.status = "ok"
    /\ Len(btree.cells) = Len(FixtureCells(fixture))
    /\ \A i \in 1..Len(btree.cells) :
         LET o == PayloadOffset(fixture, i)
             c == Capacity(fixture, i)
             b == LastFour(loaded.data)
         IN (FixtureCells(fixture)[i].payload_size > c /\ c >= 4
               /\ (IsZero32(b) \/ Above1000000(b))) =>
              /\ btree.cells[i].overflow_page = None
              /\ btree.cells[i].payload = SubSeq(loaded.data, o + 1, o + c - 4)

\* A spilling cell whose overflow page number is 1,000,001 has been decoded
\* with its two local bytes.
C18_Witness ==
  /\ pc = "page_decoded" /\ btree.status = "ok"
  /\ fixture.number = 2 /\ fixture.type = 13 /\ fixture.before = 1
  /\ fixture.last = LastCell(40, 6, U32Bytes(1000001))
  /\ Len(btree.cells) = 2
  /\ btree.cells[2].payload = <<2, 3>>
  /\ btree.cells[2].overflow_page = None

\* C20: on a leaf page, a cell whose payload starts at buffer offset o, with
\* capacity c = buffer length - o: when payload_size <= c it holds exactly
\* the payload_size bytes at o and no overflow page; otherwise, with c >= 4,
\* it holds the c - 4 bytes at o and its overflow page number is the
\* big-endian 32-bit value of the last 4 bytes of the buffer.
C20_LocalPayloadSplit ==
  (pc = "page_decoded" /\ btree.status = "ok" /\ fixture.type \in {10, 13}) =>
    \A i \in 1..Len(btree.cells) :
      LET o == PayloadOffset(fixture, i)
          c == Capacity(fixture, i)
          s == FixtureCells(fixture)[i].payload_size
          b == LastFour(loaded.data)
      IN /\ s <= c =>
              /\ btree.cells[i].payload = SubSeq(loaded.data, o + 1, o + s)
              /\ btree.cells[i].overflow_page = None
         /\ (s > c /\ c >= 4) =>
              /\ btree.cells[i].payload = SubSeq(loaded.data, o + 1, o + c - 4)
              /\ btree.cells[i].overflow_page # None
              /\ b[1] = 0 => btree.cells[i].overflow_page = Some(Value32(b))

\* C20 as amended: as above, but the overflow page number is the value of
\* the last 4 bytes only when that value is in 1..1,000,000; the cell has no
\* overflow page when it is 0 or larger.
C20_LocalPayloadSplitAmended ==
  (pc = "page_decoded" /\ loaded.status = "ok" /\ fixture.type \in {10, 13}) =>
    /\ btree.status = "ok"
    /\ Len(btree.cells) = Len(FixtureCells(fixture))
    /\ \A i \in 1..Len(btree.cells) :
         LET o == PayloadOffset(fixture, i)
             c == Capacity(fixture, i)
             s == FixtureCells(fixture)[i].payload_size
             b == LastFour(loaded.data)
         IN /\ btree.cells[i].payload_size = s
            /\ s <= c =>
                 /\ btree.cells[i].payload = SubSeq(loaded.data, o + 1, o + s)
                 /\ btree.cells[i].overflow_page = None
            /\ (s > c /\ c >= 4) =>
                 /\ btree.cells[i].payload = SubSeq(loaded.data, o + 1, o + c - 4)
                 /\ btree.cells[i].overflow_page =
                      IF IsZero32(b) \/ Above1000000(b) THEN None ELSE Some(Value32(b))

\* A table leaf page of a fitting cell and a spilling cell whose overflow
\* page number is 3 has been decoded.
C20_Witness ==
  /\ pc = "page_decoded" /\ btree.status = "ok"
  /\ fixture.number = 2 /\ fixture.type = 13 /\ fixture.before = 1
  /\ fixture.last = LastCell(7, 6, U32Bytes(3))
  /\ Len(btree.cells) = 2
  /\ btree.cells[1].payload = <<11, 21>> /\ btree.cells[1].overflow_page = None
  /\ btree.cells[2].payload = <<2, 3>> /\ btree.cells[2].overflow_page = Some(3)

-----------------------------------------------------------------------------
(* get_full_payload, one loop iteration at a time, on overflow chains whose
   next-page numbers are arbitrary *)

\* The locals of get_full_payload: next_read is the page number the last
\* iteration read from its page, None when it read none.
ChainState(how, full_payload, current_overflow, loads, next_read) ==
  [status |-> how, full_payload |-> full_payload, current_overflow |-> current_overflow,
   loads |-> loads, next_read |-> next_read]

\* The loop body with the chain followed until a page holds the next-page
\* number 0: every page gives its first page size - 4 bytes.
get_full_payload_iteration_sentinel(f, size, how_built, total_size, st) ==
  With(load_page(f, size, how_built, st.current_overflow[1]), LAMBDA overflow_page :
    IF overflow_page.status # "ok"
    THEN ChainState(overflow_page.status, st.full_payload, st.current_overflow,
                    st.loads + 1, None)
    ELSE LET data_size == Len(overflow_page.data) - 4
             next == read_u32(overflow_page.data, data_size)
         IN ChainState("running",
                       st.full_payload \o read_bytes(overflow_page.data, 0, data_size),
                       IF next # 0 THEN Some(next) ELSE None, st.loads + 1, Some(next)))

\* The body of get_full_payload's `while let Some(page_num) = current_overflow`
\* (see get_full_payload_loop), from the locals st to the locals after it.
get_full_payload_iteration(f, size, how_built, total_size, st) ==
  With(load_page(f, size, how_built, st.current_overflow[1]), LAMBDA overflow_page :
    IF overflow_page.status # "ok"
    THEN ChainState(overflow_page.status, st.full_payload, st.current_overflow,
                    st.loads + 1, None)
    ELSE IF total_size < Len(st.full_payload) + 4 /\ how_built = "debug"
    THEN ChainState("panic", st.full_payload, st.current_overflow, st.loads + 1, None)
    ELSE LET remaining_size == IF total_size < Len(st.full_payload) THEN Huge
                               ELSE total_size - Len(st.full_payload)
             a == IF remaining_size < 4 THEN Huge ELSE remaining_size - 4
             b == Len(overflow_page.data) - 4
             data_size == IF a < b THEN a ELSE b
             more == remaining_size > data_size + 4
         IN ChainState("running",
                       st.full_payload \o read_bytes(overflow_page.data, 0, data_size),
                       IF more THEN Some(read_u32(overflow_page.data, data_size))
                       ELSE None,
                       st.loads + 1,
                       IF more THEN Some(read_u32(overflow_page.data, data_size))
                       ELSE None))

\* Overflow pages written after the leaf page (pages 3, 4, ...).
MaxChainPages == 2

\* Payload sizes of the spilling cell; each is below 128, one varint byte.
ChainPayloads == {30, 45, 75, 100, 127}
ChainSpaces == {4, 12}

\* The 4 bytes an overflow page ends with: 0, the overflow pages 3 and 4
\* (forward, back or to itself), a page past the end of the file, and two
\* numbers above 1,000,000.
ChainPointers ==
  {U32Bytes(n) : n \in {0, 3, 4, 2 + MaxChainPages + 1, MaxOverflowPage + 1}}
    \cup {<<255, 255, 255, 255>>}

\* Byte i of the content of overflow page k.
ChainContent(k, size) == [i \in 1..(size - 4) |-> 50 * k + i]

\* Page 1, the leaf page 2 whose one cell spills to page 3, and the
\* overflow pages: content, then the next-page number fixture.nexts[k].
ChainFile(fx, size) ==
  Zeros(size)
    \o BTreePage(13, 0, <<LeafCellBytes(fx.payload_size, fx.rowid,
                                        SubSeq(Payload(fx.payload_size), 1, LocalLen(fx)),
                                        Some(3))>>, size, 0)
    \o Flatten([k \in 1..MaxChainPages |-> ChainContent(k, size) \o fx.nexts[k]])

ChainFixtures ==
  [kind : {"chain"}, payload_size : ChainPayloads, space : ChainSpaces, rowid : {7},
   nexts : [1..MaxChainPages -> ChainPointers]]

ChainInit ==
  /\ pc = "chain_start"
  /\ build \in {"debug", "release"}
  /\ fixture \in ChainFixtures
  /\ page_size = OverflowPageSize
  /\ file = ChainFile(fixture, page_size)
  /\ OverflowIdle
  /\ OverflowOthersIdle

\* btree_from_page on the leaf page and the entry of get_full_payload on its
\* first cell.
ChainStart ==
  /\ pc = "chain_start"
  /\ btree' = btree_from_page(file, page_size, build, 2)
  /\ IF btree'.status = "ok" /\ btree'.cells # <<>>
     THEN /\ cell' = btree'.cells[1]
          /\ chain' = ChainState("running", cell'.payload,
                                 IF cell'.kind = "TableLeaf" THEN cell'.overflow_page
                                 ELSE None, 0, None)
          /\ pc' = "chain_loop"
     ELSE cell' = cell /\ chain' = chain /\ pc' = "chain_failed"
  /\ UNCHANGED <<payloadOut, fileVars, varintVars, readVarintVars, recordVars, selectVars,
                 loaderVars>>

\* One iteration of the loop; a failed load_page (or a panic) ends the call.
ChainLoop ==
  /\ pc = "chain_loop"
  /\ chain.current_overflow # None
  /\ chain' = get_full_payload_iteration(file, page_size, build, cell.payload_size, chain)
  /\ IF chain'.status = "running"
     THEN pc' = "chain_loop" /\ UNCHANGED payloadOut
     ELSE /\ pc' = "chain_done"
          /\ payloadOut' = PayloadOut(chain'.status, chain'.full_payload, chain'.loads)
  /\ UNCHANGED <<btree, cell, fileVars, varintVars, readVarintVars, recordVars, selectVars,
                 loaderVars>>

\* Ok(full_payload)
ChainReturn ==
  /\ pc = "chain_loop"
  /\ chain.current_overflow = None
  /\ payloadOut' = PayloadOut("ok", chain.full_payload, chain.loads)
  /\ pc' = "chain_done"
  /\ UNCHANGED <<btree, cell, chain, fileVars, varintVars, readVarintVars, recordVars,
                 selectVars, loaderVars>>

ChainNext == ChainStart \/ ChainLoop \/ ChainReturn

SpecChain == ChainInit /\ [][ChainNext]_vars

\* The call, iteration by iteration, returns what get_full_payload returns.
ChainAgrees ==
  pc = "chain_done" => payloadOut = get_full_payload(file, page_size, build, cell)

CeilDiv(a, b) == (a + b - 1) \div b

\* C21: get_full_payload terminates on every chain, one that leads back to
\* a visited page included: each iteration loads one page, and the pages
\* loaded for a cell never exceed payload_size / (page_size - 4), rounded
\* up; while another page is still to be loaded they are fewer than that.
C21_ChainTermination ==
  (pc \in {"chain_loop", "chain_done"}) =>
    /\ chain.loads <= CeilDiv(cell.payload_size, page_size - 4)
    /\ (pc = "chain_loop" /\ chain.current_overflow # None) =>
         chain.loads < CeilDiv(cell.payload_size, page_size - 4)

\* get_full_payload has returned after loading overflow page 3, whose
\* next-page number is 3, three times or more.
C21_Witness ==
  /\ pc = "chain_done"
  /\ fixture.nexts[1] = U32Bytes(3)
  /\ payloadOut.status = "ok"
  /\ payloadOut.loads >= 3
  /\ chain.current_overflow = None

\* C22: when the next-page number read from an overflow page, with more
\* payload still needed, is 0 or above 1,000,000, get_full_payload follows
\* the chain no further, does not try to load that page, and returns the
\* payload gathered so far.
C22_SuspiciousNext ==
  (chain.status # "none" /\ chain.loads >= 1 /\ chain.next_read # None
     /\ (chain.next_read[1] = 0 \/ chain.next_read[1] > 1000000)) =>
    /\ chain.status = "running"
    /\ chain.current_overflow = None
    /\ pc = "chain_done" =>
         payloadOut = PayloadOut("ok", chain.full_payload, chain.loads)

-----------------------------------------------------------------------------
(* count_rows_in_btree on files whose interior pages name any page as child *)

\* Pages after page 1.
MaxCountPages == 3

\* A table interior page of one cell, its cell pointer written where
\* Cell::new reads it, at offset 8 (bytes 8..9 of the page, the upper half
\* of the right-most pointer); the cell, at the end of the page, names
\* `child` as its left child page.
LoopPageBytes(child, size) ==
  With(InteriorCellBytes(child, 1), LAMBDA c :
    <<5, 0, 0>> \o U16Bytes(1) \o U16Bytes(size - Len(c)) \o <<0>>
      \o U16Bytes(size - Len(c)) \o Zeros(size - 10 - Len(c)) \o c)

\* What a page after page 1 holds: a table leaf of 0 or 1 rows, an interior
\* page laid out as the format has it (right-most pointer at 8..11, cell
\* pointer at 12), or an interior page whose decoded cell names a page from
\* 2 to one past the last page.
CountPageKinds ==
  [kind : {"leaf"}, rows : 0..1, child : {0}]
    \cup [kind : {"interior"}, rows : {0}, child : {RootPage + 1}]
    \cup [kind : {"loop"}, rows : {0}, child : 2..(MaxCountPages + 2)]

CountPageBytes(k, size) ==
  CASE k.kind = "leaf" ->
         BTreePage(13, 0, [i \in 1..k.rows |-> LeafCellBytes(2, i, <<1, 1>>, None)], size, 0)
    [] k.kind = "interior" ->
         BTreePage(5, k.child, <<InteriorCellBytes(k.child, 1)>>, size, 0)
    [] OTHER -> LoopPageBytes(k.child, size)

CountFile(fx, size) ==
  Zeros(size) \o Flatten([j \in 1..MaxCountPages |-> CountPageBytes(fx.pages[j], size)])

CountFixtures == [kind : {"count"}, pages : [1..MaxCountPages -> CountPageKinds]]

\* select_columns has prepared a COUNT(*) and calls count_rows_in_btree on
\* the root page.
CountInit ==
  /\ pc = "count_call"
  /\ build \in {"debug", "release"}
  /\ fixture \in CountFixtures
  /\ page_size = DbPageSize
  /\ file = CountFile(fixture, page_size)
  /\ stmt = SelectStatement(<<Count>>, <<116>>)
  /\ sel = [status |-> "none"]
  /\ idx = 0 /\ stack = <<>> /\ callee = RootPage
  /\ ret = [status |-> "none"]
  /\ stdout = <<>>
  /\ selOut = [status |-> "none"]
  /\ SelectOthersIdle

CountNext == CountCall \/ CountLoop \/ CountReturn

SpecCount == CountInit /\ [][CountNext]_vars

\* The page of the k-th active call of count_rows_in_btree (the root's
\* call is the first): the left child the caller's loop is at.
FramePage(k) ==
  IF k = 1 THEN RootPage
  ELSE stack[k - 1].cells[stack[k - 1].i + 1].left_child_page

\* C23: count_rows_in_btree terminates on every finite file: it is never
\* called on a page whose own call is still active (the file does not
\* change, so such a call would repeat itself without end), and so the
\* nesting of calls stays within the number of pages of the file.
C23_TraversalTerminates ==
  pc = "count_call" => \A k \in 1..Len(stack) : FramePage(k) # callee

-----------------------------------------------------------------------------
(* The two varint decoders on the same bytes *)

\* Record::parse_varint(&data[offset..]) after Page::read_varint(offset).
ParseVarint ==
  /\ pc = "rv_done"
  /\ pvOut' = parse_varint(SliceFrom(rvData, rvOffset))
  /\ pc' = "pv_done"
  /\ UNCHANGED <<rvData, rvOffset, rvOut, readVarintOthers>>

DecodersNext == ReadVarint \/ ParseVarint

SpecDecoders == ReadVarintInit /\ [][DecodersNext]_vars

\* C24: on the same bytes Page::read_varint and Record::parse_varint
\* return the same value and the same number of bytes consumed, for one
\* byte, several bytes and nine bytes.
C24_DecodersAgree ==
  (pc = "pv_done" /\ (rvOut.status = "ok" \/ pvOut.status = "ok")) =>
    /\ rvOut.status = "ok"
    /\ pvOut.status = "ok"
    /\ rvOut.value = pvOut.value
    /\ rvOut.size = pvOut.length


\* C25: on an interior page (type 0x05 or 0x02) the cell pointers are not
\* read from bytes 8..11 of the page, the header's right-most pointer: the
\* right-most pointer decoded is the one written, and every decoded
\* interior cell has the left child page of the cell written in the content
\* area.
C25_InteriorLayout ==
  (pc = "page_decoded" /\ btree.status = "ok" /\ fixture.type \in {2, 5}) =>
    /\ btree.header.right_most_pointer = 3
    /\ \A i \in 1..Len(btree.cells) :
         /\ i <= Len(FixtureCells(fixture))
         /\ btree.cells[i].left_child_page = FixtureCells(fixture)[i].left_child_page


\* The declaration index (from 1) of the column `name` in the fixture's
\* CREATE TABLE column list; 0 when no column has that name, or when the
\* column is the INTEGER PRIMARY KEY.
DeclaredAt(fx, name) ==
  LET columns == Schemas[fx.schema].columns
      found == {j \in 1..Len(columns) : columns[j].name = name /\ ~columns[j].is_rowid}
  IN IF found = {} THEN 0 ELSE CHOOSE j \in found : TRUE

\* C26: for a column list with no INTEGER PRIMARY KEY column, or with that
\* column at any position, projecting named non-rowid columns of rows that
\* store a value for every declared column succeeds and outputs, for each
\* row, the record value stored at each column's declaration index.
C26_ColumnValueMapping ==
  (pc = "sel_done" /\ ~fixture.tree.interior
     /\ stmt.from = Schemas[fixture.schema].table_name
     /\ fixture.stored = Len(Schemas[fixture.schema].columns)
     /\ \A k \in 1..Len(stmt.columns) :
          stmt.columns[k].kind = "Named" /\ DeclaredAt(fixture, stmt.columns[k].name) > 0) =>
    /\ selOut.status = "ok"
    /\ Len(stdout) = TotalRows(fixture)
    /\ \A r \in 1..Len(stdout) : \A k \in 1..Len(stmt.columns) :
         stdout[r].row[k] =
           to_string(StoredValue(Schemas[fixture.schema],
                                 DeclaredAt(fixture, stmt.columns[k].name), r))


\* C27: on every byte sequence Record::parse returns a Record or an error
\* value; it does not read past the end of the payload, whether the header
\* length exceeds the payload length or a serial type declares more content
\* bytes than remain.
C27_RecordBoundsSafety ==
  (pc = "rec_done") => recOut.status \in {"ok", "err"}

====
